---------------------------- MODULE Spec2Model ----------------------------
(* A model of fadupes: the fingerprint computation (src/src/lib.rs,        *)
(* accumulate_metrics), the resume cache (ResumeCache: load, lookup,       *)
(* store, save), the scan pipeline (AudioFile::walk_dir), the Ctrl-C       *)
(* handler and the duplicate grouping (src/src/bin/main.rs).               *)
EXTENDS Integers, Sequences, FiniteSets, TLC

(***************************************************************************)
(* Floating point values.  A float is a record [k, n, d, sq]:              *)
(*   k = "lit"   the literal n (d = 1), e.g. 0.0 or -1000.0                *)
(*   k = "ratio" the quotient n / d of two integers (peak_level)           *)
(*   k = "db"    20 * log10(sqrt(sum((s/d)^2 for s in sq) / n)), which is  *)
(*               finite because the code takes the logarithm only of a     *)
(*               positive amplitude                                        *)
(*   k = "nan", "inf", "ninf"  the non-finite values                       *)
(* Two floats of the model are the same record exactly when the code       *)
(* computed them by the same arithmetic on the same integers.              *)
(***************************************************************************)
Lit(n) == [k |-> "lit", n |-> n, d |-> 1, sq |-> <<>>]
Ratio(n, d) == [k |-> "ratio", n |-> n, d |-> d, sq |-> <<>>]
Db(sq, count, d) == [k |-> "db", n |-> count, d |-> d, sq |-> sq]
NaN == [k |-> "nan", n |-> 0, d |-> 1, sq |-> <<>>]
PosInf == [k |-> "inf", n |-> 0, d |-> 1, sq |-> <<>>]
NegInf == [k |-> "ninf", n |-> 0, d |-> 1, sq |-> <<>>]

is_finite(v) == v.k \in {"lit", "ratio", "db"}

\* f32::to_bits / f64::to_bits: the bit pattern, one per value of the model
to_bits(v) == <<v.k, v.n, v.d, v.sq>>

\* lib.rs:98  fn default_rms_db_level() -> f64 { -1000.0 }
SentinelDb == -1000
default_rms_db_level == Lit(SentinelDb)

\* lib.rs:116-122
clean_rms_db_level(v) == IF is_finite(v) THEN v ELSE default_rms_db_level

(***************************************************************************)
(* Integer samples.  i32 arithmetic: i32::MIN.abs() overflows; a build     *)
(* with overflow checks panics there, a build without them wraps to        *)
(* i32::MIN.                                                               *)
(***************************************************************************)
I32Max == 2147483647
I32Min == (-2147483647) - 1

BitDepths == {8, 16, 24, 32}

\* lib.rs:713-721
get_max_amplitude(bit_depth) ==
    CASE bit_depth = 8 -> 127
      [] bit_depth = 16 -> 32767
      [] bit_depth = 24 -> 8388607
      [] bit_depth = 32 -> I32Max
      [] OTHER -> 0

\* the most negative sample a decoder yields at a width
MinSample(bit_depth) ==
    IF bit_depth = 32 THEN I32Min ELSE (-get_max_amplitude(bit_depth)) - 1

\* the samples the model draws from at a width: both extremes, zero, +-1
SampleValues(bit_depth) ==
    {MinSample(bit_depth), -1, 0, 1, get_max_amplitude(bit_depth)}

\* lib.rs:683 sample.abs() without overflow checks (wrapping)
WrappingAbs(s) == IF s = I32Min THEN I32Min ELSE IF s < 0 THEN -s ELSE s

\* lib.rs:683  let abs = sample.abs() as i32;
SampleAbs(s) == WrappingAbs(s)

\* -|s|: the square of s / max_amplitude as an f64 is decided by it
NegAbs(s) == IF s > 0 THEN -s ELSE s

\* lib.rs:678-691 the single pass: acc = [max_abs, sq, count]
RECURSIVE Pass(_, _, _)
Pass(samples, i, acc) ==
    IF i > Len(samples) THEN acc
    ELSE LET sample == samples[i]
             abs == SampleAbs(sample)
         IN Pass(samples, i + 1,
                 [max_abs |-> IF abs > acc.max_abs THEN abs ELSE acc.max_abs,
                  sq |-> IF sample = 0 THEN acc.sq
                         ELSE Append(acc.sq, NegAbs(sample)),
                  count |-> acc.count + 1])

\* lib.rs:699-708 a faulty variant: the logarithm is taken of a zero amplitude too
RmsOfPassNoZeroCheck(acc, max_amplitude) ==
    IF acc.count = 0 THEN default_rms_db_level
    ELSE IF acc.sq # <<>> THEN Db(acc.sq, acc.count, max_amplitude)
    ELSE NegInf

\* lib.rs:699-708
RmsOfPass(acc, max_amplitude) ==
    IF acc.count = 0 THEN default_rms_db_level
    ELSE IF acc.sq # <<>>                \* rms_amplitude > 0.0
         THEN Db(acc.sq, acc.count, max_amplitude)
         ELSE default_rms_db_level

\* lib.rs:669-711 accumulate_metrics; overflow_checks is the build's setting
accumulate_metrics(samples, bit_depth, overflow_checks) ==
    LET max_amplitude == get_max_amplitude(bit_depth)
        acc == Pass(samples, 1, [max_abs |-> 0, sq |-> <<>>, count |-> 0])
    IN IF max_amplitude <= 0
       THEN [panic |-> FALSE, peak_level |-> Lit(0),
             rms_db_level |-> default_rms_db_level]
       ELSE IF overflow_checks /\ \E i \in 1..Len(samples) : samples[i] = I32Min
       THEN [panic |-> TRUE, peak_level |-> Lit(0), rms_db_level |-> Lit(0)]
       ELSE [panic |-> FALSE,
             peak_level |-> IF acc.max_abs = 0 THEN Lit(0)
                            ELSE Ratio(acc.max_abs, max_amplitude),
             rms_db_level |-> RmsOfPass(acc, max_amplitude)]


(***************************************************************************)
(* The files being scanned.  A file has a byte size, a modification time   *)
(* and a content; a content is what the decoder sees in it.                *)
(***************************************************************************)
Files == {"a", "b"}

\* a readable 16-bit mono WAV holding two samples
Tone == [ext |-> "wav", readable |-> TRUE, has_samples |-> TRUE,
         sample_rate |-> 44100, bits_per_sample |-> 16, channels |-> 1,
         samples |-> <<1, -1>>]
\* a readable 16-bit mono WAV holding silence
Silence == [Tone EXCEPT !.samples = <<0, 0>>]
\* a file whose container cannot be read
Corrupt == [Tone EXCEPT !.readable = FALSE, !.samples = <<>>]

Contents == {Tone, Silence, Corrupt}
Sizes == {1, 2}

\* Path::to_string_lossy: the file names of the model are valid UTF-8, which
\* the conversion leaves as they are
to_string_lossy(path) == path

\* lib.rs:143-159 AudioFile::default() with the given path (lib.rs:612-615)
DefaultAudioFile(path) ==
    [file_path |-> to_string_lossy(path), file_name |-> "",
     total_samples |-> 0, sample_rate |-> 0, bit_depth |-> 0, channels |-> 0,
     peak_level |-> Lit(0), rms_db_level |-> Lit(0), crc32 |-> "",
     file_size |-> 0, modified_secs |-> 0]

\* the result of a decode that failed (the Err of process_audio_file)
DecodeErr == [ok |-> FALSE, panic |-> FALSE, audio_file |-> DefaultAudioFile("")]

\* lib.rs:606-666 process_audio_file on a file with content c
process_audio_file(path, c, overflow_checks) ==
    LET base == DefaultAudioFile(path)
        depth_ok == IF c.ext = "wav" THEN c.bits_per_sample \in BitDepths
                    ELSE TRUE
        m == accumulate_metrics(c.samples, c.bits_per_sample, overflow_checks)
        total == IF c.ext = "wav" THEN Len(c.samples) \div c.channels
                 ELSE Len(c.samples)
    IN IF c.ext \notin {"flac", "wav"} THEN DecodeErr
       ELSE IF ~c.readable THEN DecodeErr
       ELSE IF c.ext = "flac" /\ ~c.has_samples THEN DecodeErr
       ELSE IF ~depth_ok THEN DecodeErr
       ELSE [ok |-> TRUE, panic |-> m.panic,
             audio_file |->
                [base EXCEPT !.total_samples = total,
                             !.sample_rate = c.sample_rate,
                             !.bit_depth = c.bits_per_sample,
                             !.channels = c.channels,
                             !.peak_level = m.peak_level,
                             !.rms_db_level = clean_rms_db_level(m.rms_db_level)]]

(***************************************************************************)
(* The state file as JSON.  serde_json writes a finite f64 as a number and *)
(* a non-finite one as null; a field can also be absent from the file.     *)
(***************************************************************************)
JsonNum(v) == [j |-> "num", v |-> v]
JsonNull == [j |-> "null", v |-> Lit(0)]
JsonMissing == [j |-> "missing", v |-> Lit(0)]

\* serde_json's Serialize for f64
serialize_f64(v) == IF is_finite(v) THEN JsonNum(v) ELSE JsonNull

\* lib.rs:102-114 with the field's default (lib.rs:133-136)
deserialize_rms_db_level(jv) ==
    LET val == IF jv.j = "num" THEN jv.v ELSE default_rms_db_level
    IN IF is_finite(val) THEN val ELSE default_rms_db_level

\* Serialize of one CachedEntry (lib.rs:124-141, 161-166)
EntryToJson(e) ==
    [e EXCEPT !.audio_file.rms_db_level = serialize_f64(@)]

\* the fields of the two structs (lib.rs:125-140, 162-165); a JSON object is a
\* function on the keys it has
AudioFileFields == DOMAIN DefaultAudioFile("")
CachedEntryFields == {"audio_file", "file_size", "modified_secs"}

\* lib.rs:124-141 a faulty variant: rms_db_level has no default either
EntryParsesStrict(je) ==
    /\ CachedEntryFields \subseteq DOMAIN je
    /\ AudioFileFields \subseteq DOMAIN je.audio_file

\* the derived Deserialize accepts the object: every field is there but for
\* rms_db_level, the one field with a serde default (lib.rs:133-136); keys
\* that are no field are skipped
EntryParses(je) ==
    /\ CachedEntryFields \subseteq DOMAIN je
    /\ AudioFileFields \ {"rms_db_level"} \subseteq DOMAIN je.audio_file

\* Deserialize of one CachedEntry that parses (lib.rs:124-141, 161-166)
EntryFromJson(je) ==
    [audio_file |->
        [f \in AudioFileFields |->
            IF f # "rms_db_level" THEN je.audio_file[f]
            ELSE IF f \in DOMAIN je.audio_file
                 THEN deserialize_rms_db_level(je.audio_file[f])
                 ELSE default_rms_db_level],
     file_size |-> je.file_size,
     modified_secs |-> je.modified_secs]

\* the whole map: a HashMap is a function on the keys it holds
MapToJson(map) == [p \in DOMAIN map |-> EntryToJson(map[p])]
MapFromJson(jmap) == [p \in DOMAIN jmap |-> EntryFromJson(jmap[p])]
\* serde_json::from_reader accepts the document (lib.rs:180)
MapParses(jmap) == \A p \in DOMAIN jmap : EntryParses(jmap[p])
EmptyMap == <<>>

(***************************************************************************)
(* The disk: the state file, its temporary file and its backup.  A path is *)
(* a stem and the dot-separated parts of its extension; a file on disk is  *)
(* absent, a complete store, a partly written store, or garbage.           *)
(***************************************************************************)
StatePaths == {[stem |-> "state", ext |-> <<"json">>],
               [stem |-> "state", ext |-> <<"tmp">>]}

\* Path::with_extension
with_extension(path, ext) == [path EXCEPT !.ext = ext]

\* lib.rs:270
TmpPath(path) == with_extension(path, <<"tmp">>)

\* lib.rs:764-770
BrokenPath(path) ==
    IF path.ext # <<>> THEN with_extension(path, path.ext \o <<"broken">>)
    ELSE with_extension(path, <<"broken">>)

\* a state file named without an extension
BarePath == [stem |-> "state", ext |-> <<>>]

DiskPaths ==
    LET paths == StatePaths \cup {BarePath}
    IN paths \cup {TmpPath(p) : p \in paths} \cup {BrokenPath(p) : p \in paths}

Absent == [kind |-> "absent", json |-> EmptyMap]
Garbage == [kind |-> "garbage", json |-> EmptyMap]
Truncated == [kind |-> "partial", json |-> EmptyMap]
StoreFile(jmap) == [kind |-> "store", json |-> jmap]


(***************************************************************************)
(* The resume cache in memory (lib.rs:168-175): data is the HashMap, a     *)
(* function on the keys it holds.                                          *)
(***************************************************************************)
None == [some |-> FALSE, audio_file |-> DefaultAudioFile("")]
Some(audio_file) == [some |-> TRUE, audio_file |-> audio_file]

CachedEntry(audio_file, file_size, modified_secs) ==
    [audio_file |-> audio_file, file_size |-> file_size,
     modified_secs |-> modified_secs]

\* lib.rs:216-231 a faulty variant: the modification time is not compared
lookup_ignores_mtime(map, file_path, file_size, modified_secs) ==
    LET key == to_string_lossy(file_path)
    IN IF key \in DOMAIN map /\ map[key].file_size = file_size
       THEN Some(map[key].audio_file) ELSE None

\* lib.rs:216-231 a faulty variant: a hit returns an empty record of the path
lookup_returns_default(map, file_path, file_size, modified_secs) ==
    LET key == to_string_lossy(file_path)
    IN IF key \in DOMAIN map /\ map[key].file_size = file_size
          /\ map[key].modified_secs = modified_secs
       THEN Some(DefaultAudioFile(key)) ELSE None

\* lib.rs:216-231 ResumeCache::lookup on the map
lookup(map, file_path, file_size, modified_secs) ==
    LET key == to_string_lossy(file_path)
    IN IF key \in DOMAIN map
       THEN IF map[key].file_size = file_size
               /\ map[key].modified_secs = modified_secs
            THEN Some(map[key].audio_file)
            ELSE None
       ELSE None

\* lib.rs:234-243 a faulty variant: the entry keeps the size and time of the record
\* instead of the arguments
insert_entry_record_stat(map, audio_file, file_size, modified_secs) ==
    (audio_file.file_path :>
        CachedEntry(audio_file, audio_file.file_size,
                    audio_file.modified_secs)) @@ map

\* lib.rs:234-243 a faulty variant: the entry does not keep the time
insert_entry_without_time(map, audio_file, file_size, modified_secs) ==
    (audio_file.file_path :> CachedEntry(audio_file, file_size, 0)) @@ map

\* lib.rs:234-243 a faulty variant: an entry the map holds is kept as it is
insert_entry_or_keep(map, audio_file, file_size, modified_secs) ==
    map @@ (audio_file.file_path :>
               CachedEntry(audio_file, file_size, modified_secs))

\* lib.rs:234-243 the map.insert of ResumeCache::store
insert_entry(map, audio_file, file_size, modified_secs) ==
    (audio_file.file_path :>
        CachedEntry(audio_file, file_size, modified_secs)) @@ map

(***************************************************************************)
(* The --ignore-size option (lib.rs:19-95).  An expression is a sequence   *)
(* of characters, each a string; "U+00E9" is a character whose UTF-8       *)
(* encoding takes two bytes.  parse_size_filter returns a filter, an error *)
(* message, or panics.                                                     *)
(***************************************************************************)
\* lib.rs:19-23 enum SizeFilter
Lt(n) == [kind |-> "Lt", a |-> n, b |-> n]
Gt(n) == [kind |-> "Gt", a |-> n, b |-> n]
Range(a, b) == [kind |-> "Range", a |-> a, b |-> b]
\* main.rs:104 the option is absent
NoFilter == [kind |-> "none", a |-> 0, b |-> 0]
NoExpr == [some |-> FALSE, expr |-> <<>>]
SomeExpr(e) == [some |-> TRUE, expr |-> e]

\* lib.rs:25-33 a faulty variant: the bound of Gt is ignored too
should_ignore_inclusive(flt, bytes) ==
    CASE flt.kind = "Lt" -> bytes < flt.a
      [] flt.kind = "Gt" -> bytes >= flt.a
      [] flt.kind = "Range" -> bytes >= flt.a /\ bytes <= flt.b
      [] OTHER -> FALSE

\* lib.rs:25-33 SizeFilter::should_ignore; lib.rs:330 is_some_and
should_ignore(flt, bytes) ==
    CASE flt.kind = "Lt" -> bytes < flt.a
      [] flt.kind = "Gt" -> bytes > flt.a
      [] flt.kind = "Range" -> bytes >= flt.a /\ bytes <= flt.b
      [] OTHER -> FALSE

DigitChars == <<"0", "1", "2", "3", "4", "5", "6", "7", "8", "9">>
\* lib.rs:68 char::is_ascii_digit
is_ascii_digit(c) == \E n \in 1..10 : DigitChars[n] = c
DigitValue(c) == (CHOOSE n \in 1..10 : DigitChars[n] = c) - 1
\* lib.rs:36 and 60 char::is_whitespace
is_whitespace(c) == c = " "
\* the bytes of a character in UTF-8
len_utf8(c) == IF c = "U+00E9" THEN 2 ELSE 1
\* lib.rs:75 to_ascii_lowercase
to_ascii_lowercase(c) ==
    CASE c = "B" -> "b" [] c = "K" -> "k" [] c = "M" -> "m" [] c = "G" -> "g"
      [] OTHER -> c

RECURSIVE trim_start(_)
trim_start(s) ==
    IF s # <<>> /\ is_whitespace(Head(s)) THEN trim_start(Tail(s)) ELSE s
RECURSIVE trim_end(_)
trim_end(s) ==
    IF s # <<>> /\ is_whitespace(s[Len(s)])
    THEN trim_end(SubSeq(s, 1, Len(s) - 1))
    ELSE s
\* lib.rs:36, 60 and 75 str::trim
trim(s) == trim_end(trim_start(s))

\* the value of a sequence of digits
RECURSIVE DecimalValue(_)
DecimalValue(ds) ==
    IF ds = <<>> THEN 0
    ELSE 10 * DecimalValue(SubSeq(ds, 1, Len(ds) - 1)) + DigitValue(ds[Len(ds)])

RECURSIVE Pow10(_)
Pow10(k) == IF k = 0 THEN 1 ELSE 10 * Pow10(k - 1)

\* lib.rs:64-72 the length of the leading run of digits and dots
RECURSIVE NumberEnd(_, _)
NumberEnd(s, i) ==
    IF i < Len(s) /\ (is_ascii_digit(s[i + 1]) \/ s[i + 1] = ".")
    THEN NumberEnd(s, i + 1)
    ELSE i

\* lib.rs:80-86 the multiplier of a unit, 0 for an unknown unit
UnitMultiplier(unit) ==
    CASE unit \in {<<>>, <<"b">>} -> 1
      [] unit \in {<<"k", "b">>, <<"k">>} -> 1024
      [] unit \in {<<"m", "b">>, <<"m">>} -> 1024 * 1024
      [] unit \in {<<"g", "b">>, <<"g">>} -> 1024 * 1024 * 1024
      [] OTHER -> 0

ParseErr(msg) == [ok |-> FALSE, bytes |-> 0, err |-> msg]
ParseOk(n) == [ok |-> TRUE, bytes |-> n, err |-> ""]

\* lib.rs:59-95 parse_size_bytes: num_str is read as an f64 (digits with at
\* most one dot), multiplied by the unit and rounded half away from zero
parse_size_bytes(s0) ==
    LET s == trim(s0)
        i == NumberEnd(s, 0)
        num_str == SubSeq(s, 1, i)
        unit_str == [k \in 1..Len(trim(SubSeq(s, i + 1, Len(s)))) |->
                        to_ascii_lowercase(trim(SubSeq(s, i + 1, Len(s)))[k])]
        dots == {k \in 1..i : num_str[k] = "."}
        dot == IF dots = {} THEN i + 1 ELSE CHOOSE k \in dots : TRUE
        whole == DecimalValue(SubSeq(num_str, 1, dot - 1))
        frac == SubSeq(num_str, dot + 1, i)
        mult == UnitMultiplier(unit_str)
        frac_bytes == IF DecimalValue(frac) = 0 THEN 0
                      ELSE (2 * DecimalValue(frac) * mult + Pow10(Len(frac)))
                              \div (2 * Pow10(Len(frac)))
    IN IF i = 0 THEN ParseErr("missing number")
       ELSE IF Cardinality(dots) > 1 \/ Cardinality(dots) = i
            THEN ParseErr("bad number")
       ELSE IF mult = 0 THEN ParseErr("unknown unit")
       ELSE ParseOk(whole * mult + frac_bytes)

FilterOk(flt) == [kind |-> "ok", filter |-> flt, err |-> ""]
FilterErr(msg) == [kind |-> "err", filter |-> NoFilter, err |-> msg]
FilterPanic == [kind |-> "panic", filter |-> NoFilter, err |-> ""]

\* lib.rs:35-57 parse_size_filter; split_at(1) panics when byte 1 is past the
\* end of the string or inside its first character
parse_size_filter(expr) ==
    LET s == trim(expr)
        dotdots == {k \in 1..(Len(s) - 1) : s[k] = "." /\ s[k + 1] = "."}
        at == CHOOSE k \in dotdots : \A j \in dotdots : k <= j
        lo == parse_size_bytes(SubSeq(s, 1, at - 1))
        hi == parse_size_bytes(SubSeq(s, at + 2, Len(s)))
        n == parse_size_bytes(Tail(s))
    IN IF dotdots # {}
       THEN IF ~lo.ok THEN FilterErr(lo.err)
            ELSE IF ~hi.ok THEN FilterErr(hi.err)
            ELSE IF lo.bytes <= hi.bytes
                 THEN FilterOk(Range(lo.bytes, hi.bytes))
                 ELSE FilterOk(Range(hi.bytes, lo.bytes))
       ELSE IF s = <<>> \/ len_utf8(s[1]) > 1 THEN FilterPanic
       ELSE IF ~n.ok THEN FilterErr(n.err)
       ELSE IF s[1] = "<" THEN FilterOk(Lt(n.bytes))
       ELSE IF s[1] = ">" THEN FilterOk(Gt(n.bytes))
       ELSE FilterErr("expected '<', '>', or '..' range")

(***************************************************************************)
(* The process: the main thread, the pool's workers, one walk_dir call per *)
(* scan root (main.rs:147-166) and the Ctrl-C handler's thread.            *)
(***************************************************************************)
Workers == {"w1", "w2"}
Roots == {"r1", "r2"}
RootOrder == <<"r1", "r2">>
Threads == {"main", "sig"} \cup Workers \cup Roots

\* the values of the checkpoint option (main.rs:113-119: at least 1)
Checkpoints == {1, 2}

\* how many times the program is started
MaxRuns == 2

VARIABLES
    fs,                \* the audio files: [Files -> [size, mtime, content]]
    disk,              \* [DiskPaths -> file]
    state_path,        \* the --state-file option
    save_every,        \* ResumeCache.save_every
    skip_unique_size,  \* the --skip-unique-size option
    ignore_size_expr,  \* the --ignore-size option as typed
    ignore_size,       \* the filter main parsed from it
    run,               \* the number of this run of the program
    exit_status,       \* "none" while the process lives, then how it ended
    data,              \* ResumeCache.data
    pending,           \* ResumeCache.pending
    save_lock,         \* the thread holding ResumeCache.save_lock, or "free"
    pc,                \* where each thread is
    task,              \* the candidate each worker is on
    snap,              \* the snapshot each thread in save() holds
    files_to_process,  \* per root, walk_dir's candidate list
    finished,          \* the candidates whose closure has returned
    audio_files,       \* the records the closures returned
    progress,          \* per root, the progress bar's position
    interrupted,       \* Ctrl-C has been delivered in this run
    groups,            \* what compare_audio_files found
    call,              \* the last call of a function checked on its own
    \* history, read by the properties only
    persisted,         \* the last file put at state_path by a rename
    data_at_interrupt, \* data when Ctrl-C was delivered
    save_failed,       \* a save of this run returned an error
    loaded_ok,         \* load of this run read a store or found none
    decoded,           \* the paths the decoder was invoked on in this run
    failed,            \* the paths whose decode failed in this run
    first_run          \* how run 1 ended

memvars == <<data, pending, save_lock, pc, task, snap, files_to_process,
             finished, audio_files, progress, interrupted, groups,
             data_at_interrupt, save_failed, loaded_ok, decoded, failed>>
envvars == <<fs, state_path, save_every, skip_unique_size, ignore_size_expr,
             ignore_size, call>>
vars == <<envvars, disk, run, exit_status, memvars, persisted, first_run>>

\* the files under each root in name order (lib.rs:302-304): r1 holds every
\* file there is, r2 lies in r1 and holds "b"
FileOrder == <<"a", "b", "c">>
RootFiles(r) ==
    IF r = "r1" THEN SelectSeq(FileOrder, LAMBDA p : p \in DOMAIN fs)
    ELSE <<"b">>

NoTask == [root |-> "r1", idx |-> 0, path |-> "", size |-> 0,
           modified_secs |-> 0, audio_file |-> DefaultAudioFile("")]
NoFirstRun == [status |-> "none", save_failed |-> FALSE, groups |-> {},
               failed |-> {}]

\* a state file written by an earlier version for the files as they are: the
\* entry of file "a", its rms_db_level written as null
LegacyStore(f) ==
    LET r == process_audio_file("a", f["a"].content, FALSE)
        a == [r.audio_file EXCEPT !.file_size = f["a"].size,
                                  !.modified_secs = f["a"].mtime]
        e == CachedEntry(a, f["a"].size, f["a"].mtime)
    IN IF r.ok
       THEN StoreFile("a" :> [EntryToJson(e) EXCEPT
                                 !.audio_file.rms_db_level = JsonNull])
       ELSE StoreFile(EmptyMap)

\* the memory of a process that has just started
FreshMemory ==
    /\ data = EmptyMap
    /\ pending = 0
    /\ save_lock = "free"
    /\ pc = [t \in Threads |->
                CASE t = "main" -> "args"
                  [] t = "sig" -> "wait"
                  [] t \in Workers -> "idle"
                  [] OTHER -> "walk"]
    /\ task = [w \in Workers |-> NoTask]
    /\ snap = [t \in Threads |-> EmptyMap]
    /\ files_to_process = [r \in Roots |-> <<>>]
    /\ finished = {}
    /\ audio_files = <<>>
    /\ progress = [r \in Roots |-> 0]
    /\ interrupted = FALSE
    /\ groups = {}
    /\ data_at_interrupt = EmptyMap
    /\ save_failed = FALSE
    /\ loaded_ok = FALSE
    /\ decoded = {}
    /\ failed = {}

\* the process ends: its memory is gone, a new process starts from this
ResetMemory ==
    /\ data' = EmptyMap
    /\ pending' = 0
    /\ save_lock' = "free"
    /\ pc' = [t \in Threads |->
                CASE t = "main" -> "args"
                  [] t = "sig" -> "wait"
                  [] t \in Workers -> "idle"
                  [] OTHER -> "walk"]
    /\ task' = [w \in Workers |-> NoTask]
    /\ snap' = [t \in Threads |-> EmptyMap]
    /\ files_to_process' = [r \in Roots |-> <<>>]
    /\ finished' = {}
    /\ audio_files' = <<>>
    /\ progress' = [r \in Roots |-> 0]
    /\ interrupted' = FALSE
    /\ groups' = {}
    /\ data_at_interrupt' = EmptyMap
    /\ save_failed' = FALSE
    /\ loaded_ok' = FALSE
    /\ decoded' = {}
    /\ failed' = {}

\* no function has been called on its own
NoCall == [op |-> "none"]

\* the layouts of the files: "a" is a tone of size 1, "b" has any size and
\* any content
Layouts ==
    {f \in [Files -> [size : Sizes, mtime : {1}, content : Contents]] :
        f["a"].size = 1 /\ f["a"].content = Tone}

\* the disk with file at path and nothing else
DiskWith(path, file) == [p \in DiskPaths |-> IF p = path THEN file ELSE Absent]

\* a process of run 1 that has just started
FirstStart ==
    /\ run = 1
    /\ exit_status = "none"
    /\ FreshMemory
    /\ persisted = disk[state_path]
    /\ first_run = NoFirstRun
    /\ call = NoCall
    /\ ignore_size = NoFilter

Running == exit_status = "none"

(***************************************************************************)
(* main reads its options (main.rs:104-119): --ignore-size is parsed, a    *)
(* parse error and a checkpoint of 0 end the process with status 2.  A     *)
(* panic of the main thread ends it with status 101.                       *)
(***************************************************************************)
MainArgs ==
    /\ Running
    /\ pc["main"] = "args"
    /\ LET parsed == IF ignore_size_expr.some
                     THEN parse_size_filter(ignore_size_expr.expr)
                     ELSE FilterOk(NoFilter)
       IN /\ exit_status' = CASE parsed.kind = "panic" -> "101"
                               [] parsed.kind = "err" -> "2"
                               [] save_every = 0 -> "2"
                               [] OTHER -> "none"
          /\ ignore_size' = parsed.filter
    /\ pc' = [pc EXCEPT !["main"] = IF exit_status' = "none" THEN "load"
                                    ELSE "args"]
    /\ UNCHANGED <<fs, state_path, save_every, skip_unique_size,
                   ignore_size_expr, call, disk, run, data, pending,
                   save_lock, task, snap, files_to_process, finished,
                   audio_files, progress, interrupted, groups,
                   data_at_interrupt, save_failed, loaded_ok, decoded, failed,
                   persisted, first_run>>

(***************************************************************************)
(* ResumeCache::load (lib.rs:178-209) with backup_broken (lib.rs:763-786). *)
(* open_ok: File::open succeeds on an existing file; rename_ok: the rename *)
(* of backup_broken succeeds.                                              *)
(***************************************************************************)
\* lib.rs:763-786 a faulty variant: the broken file is removed
backup_broken_deletes(d, path, rename_ok) ==
    IF rename_ok THEN [d EXCEPT ![path] = Absent] ELSE d

\* lib.rs:763-786
backup_broken(d, path, rename_ok) ==
    IF rename_ok
    THEN [d EXCEPT ![BrokenPath(path)] = d[path], ![path] = Absent]
    ELSE d

\* lib.rs:179-200 the file is there and cannot be opened or parsed
LoadFails(file, open_ok) ==
    /\ file.kind # "absent"
    /\ ~open_ok \/ file.kind # "store" \/ ~MapParses(file.json)

\* lib.rs:179-200 a faulty variant: the parsed map is dropped
LoadedMapDropped(file, open_ok) == EmptyMap

\* lib.rs:179-200 the map load returns
LoadedMap(file, open_ok) ==
    IF file.kind = "store" /\ open_ok /\ MapParses(file.json)
    THEN MapFromJson(file.json)
    ELSE EmptyMap

\* main.rs:123-141: load the cache, install the Ctrl-C handler
MainLoad ==
    /\ Running
    /\ pc["main"] = "load"
    /\ \E open_ok \in BOOLEAN, rename_ok \in BOOLEAN :
          LET file == disk[state_path]
          IN /\ LoadFails(file, open_ok) \/ (open_ok /\ rename_ok)
             /\ data' = LoadedMap(file, open_ok)
             /\ disk' = IF LoadFails(file, open_ok)
                        THEN backup_broken(disk, state_path, rename_ok)
                        ELSE disk
             /\ loaded_ok' = ~LoadFails(file, open_ok)
    /\ persisted' = disk'[state_path]
    /\ pending' = 0
    /\ pc' = [pc EXCEPT !["main"] = "scan"]
    /\ UNCHANGED <<envvars, run, exit_status, save_lock, task, snap,
                   files_to_process, finished, audio_files, progress,
                   interrupted, groups, data_at_interrupt, save_failed,
                   decoded, failed, first_run>>

(***************************************************************************)
(* walk_dir: the candidate list (lib.rs:302-358), the size counts          *)
(* (lib.rs:361-369) and the progress bar's seed (lib.rs:372-413).          *)
(***************************************************************************)
\* lib.rs:338 the ceiling of 800 MiB, in bytes
MaxFileSize == 838860800

\* lib.rs:328-330 a faulty variant: the metadata is taken to be readable
metadata_assumed_ok(file) == TRUE

\* lib.rs:328-330 std::fs::metadata(path) is Ok: a file whose metadata cannot
\* be read carries the mark unreadable_metadata
metadata_ok(file) == "unreadable_metadata" \notin DOMAIN file

\* lib.rs:302-358 the files of names from the i-th on that are candidates
RECURSIVE CandidatesFrom(_, _, _, _)
CandidatesFrom(f, names, i, flt) ==
    IF i > Len(names) THEN <<>>
    ELSE LET path == names[i]
             size == f[path].size
             size_ok == size <= MaxFileSize
             rest == CandidatesFrom(f, names, i + 1, flt)
         IN IF /\ metadata_ok(f[path])
               /\ ~should_ignore(flt, size)
               /\ f[path].content.ext \in {"flac", "wav"} /\ size_ok
            THEN <<[path |-> path, size |-> size,
                    modified_secs |-> f[path].mtime]>> \o rest
            ELSE rest

\* lib.rs:361-369 and 375-381
is_unique_skip(skip, cands, size) ==
    skip /\ Cardinality({i \in 1..Len(cands) : cands[i].size = size}) <= 1

\* lib.rs:372-390
initial_processed(skip, cands, map) ==
    Cardinality({i \in 1..Len(cands) :
        \/ is_unique_skip(skip, cands, cands[i].size)
        \/ lookup(map, cands[i].path, cands[i].size,
                  cands[i].modified_secs).some})

WalkDir(r) ==
    /\ Running
    /\ pc["main"] = "scan"
    /\ pc[r] = "walk"
    /\ LET cands == CandidatesFrom(fs, RootFiles(r), 1, ignore_size)
       IN /\ files_to_process' = [files_to_process EXCEPT ![r] = cands]
          /\ progress' = [progress EXCEPT
                            ![r] = initial_processed(skip_unique_size, cands, data)]
    /\ pc' = [pc EXCEPT ![r] = "par"]
    /\ UNCHANGED <<envvars, disk, run, exit_status, data, pending, save_lock,
                   task, snap, finished, audio_files, interrupted, groups,
                   data_at_interrupt, save_failed, loaded_ok, decoded, failed,
                   persisted, first_run>>

(***************************************************************************)
(* The worker closure (lib.rs:531-593; the list mode, lib.rs:438-526, does *)
(* the same to the cache).  A worker takes a candidate and runs the        *)
(* closure up to its first step on shared state after the lookup.          *)
(***************************************************************************)
\* a candidate no worker has taken yet
Unclaimed(r, i) ==
    /\ pc[r] = "par"
    /\ i \in 1..Len(files_to_process[r])
    /\ <<r, i>> \notin finished
    /\ \A w \in Workers : pc[w] = "idle" \/ <<task[w].root, task[w].idx>> # <<r, i>>

\* the closure of worker w returns its record: the progress bar advances
\* (lib.rs:589-592) and the record joins the walk's results
Returns(w) ==
    /\ progress' = [progress EXCEPT ![task[w].root] = @ + 1]
    /\ audio_files' = (<<task[w].root, task[w].idx>> :> task[w].audio_file)
                          @@ audio_files
    /\ finished' = finished \cup {<<task[w].root, task[w].idx>>}
    /\ task' = [task EXCEPT ![w] = NoTask]
    /\ pc' = [pc EXCEPT ![w] = "idle"]

\* lib.rs:535-549 the candidate is skipped for its unique size
WorkerSkip(w) ==
    /\ Running
    /\ pc[w] = "idle"
    /\ \E r \in Roots : \E i \in 1..Len(RootFiles(r)) :
          /\ Unclaimed(r, i)
          /\ is_unique_skip(skip_unique_size, files_to_process[r],
                            files_to_process[r][i].size)
          /\ finished' = finished \cup {<<r, i>>}
    /\ UNCHANGED <<envvars, disk, run, exit_status, data, pending, save_lock,
                   pc, task, snap, files_to_process, audio_files, progress,
                   interrupted, groups, data_at_interrupt, save_failed,
                   loaded_ok, decoded, failed, persisted, first_run>>

\* lib.rs:542-556 the cache has the candidate: the cached record is returned
WorkerHit(w) ==
    /\ Running
    /\ pc[w] = "idle"
    /\ \E r \in Roots : \E i \in 1..Len(RootFiles(r)) :
          /\ Unclaimed(r, i)
          /\ LET c == files_to_process[r][i]
                 cached == lookup(data, c.path, c.size, c.modified_secs)
             IN /\ ~is_unique_skip(skip_unique_size, files_to_process[r], c.size)
                /\ cached.some
                /\ audio_files' = (<<r, i>> :> cached.audio_file) @@ audio_files
          /\ finished' = finished \cup {<<r, i>>}
    /\ UNCHANGED <<envvars, disk, run, exit_status, data, pending, save_lock,
                   pc, task, snap, files_to_process, progress, interrupted,
                   groups, data_at_interrupt, save_failed, loaded_ok, decoded,
                   failed, persisted, first_run>>

\* lib.rs:542-566 the cache misses and the decode succeeds
WorkerDecodeOk(w) ==
    /\ Running
    /\ pc[w] = "idle"
    /\ \E r \in Roots : \E i \in 1..Len(RootFiles(r)) :
          /\ Unclaimed(r, i)
          /\ LET c == files_to_process[r][i]
                 cached == lookup(data, c.path, c.size, c.modified_secs)
                 res == process_audio_file(c.path, fs[c.path].content, FALSE)
             IN /\ ~is_unique_skip(skip_unique_size, files_to_process[r], c.size)
                /\ ~cached.some
                /\ res.ok
                /\ task' = [task EXCEPT ![w] =
                              [root |-> r, idx |-> i, path |-> c.path,
                               size |-> c.size,
                               modified_secs |-> c.modified_secs,
                               audio_file |->
                                  [res.audio_file EXCEPT
                                      !.file_size = c.size,
                                      !.modified_secs = c.modified_secs]]]
                /\ decoded' = decoded \cup {c.path}
    /\ pc' = [pc EXCEPT ![w] = "store"]
    /\ UNCHANGED <<envvars, disk, run, exit_status, data, pending, save_lock,
                   snap, files_to_process, finished, audio_files, progress,
                   interrupted, groups, data_at_interrupt, save_failed,
                   loaded_ok, failed, persisted, first_run>>

\* lib.rs:567-592 the cache misses and the decode fails: the error is
\* logged, the progress bar advances, nothing is returned
WorkerDecodeErr(w) ==
    /\ Running
    /\ pc[w] = "idle"
    /\ \E r \in Roots : \E i \in 1..Len(RootFiles(r)) :
          /\ Unclaimed(r, i)
          /\ LET c == files_to_process[r][i]
                 cached == lookup(data, c.path, c.size, c.modified_secs)
                 res == process_audio_file(c.path, fs[c.path].content, FALSE)
             IN /\ ~is_unique_skip(skip_unique_size, files_to_process[r], c.size)
                /\ ~cached.some
                /\ ~res.ok
                /\ decoded' = decoded \cup {c.path}
                /\ failed' = failed \cup {c.path}
          /\ progress' = [progress EXCEPT ![r] = @ + 1]
          /\ finished' = finished \cup {<<r, i>>}
    /\ UNCHANGED <<envvars, disk, run, exit_status, data, pending, save_lock,
                   pc, task, snap, files_to_process, audio_files, interrupted,
                   groups, data_at_interrupt, save_failed, loaded_ok,
                   persisted, first_run>>

\* lib.rs:233-247 store: the insert under the map's lock and
\* pending.fetch_add(1) + 1, compared with save_every; below it store returns
Store(w) ==
    /\ Running
    /\ pc[w] = "store"
    /\ data' = insert_entry(data, task[w].audio_file, task[w].size,
                            task[w].modified_secs)
    /\ pending' = pending + 1
    /\ IF pending + 1 >= save_every
       THEN /\ pc' = [pc EXCEPT ![w] = "reset"]
            /\ UNCHANGED <<task, finished, audio_files, progress>>
       ELSE Returns(w)
    /\ UNCHANGED <<envvars, disk, run, exit_status, save_lock, snap,
                   files_to_process, interrupted, groups, data_at_interrupt,
                   save_failed, loaded_ok, decoded, failed, persisted,
                   first_run>>

\* lib.rs:249-250 store: pending.store(0), then save()
StoreReset(w) ==
    /\ Running
    /\ pc[w] = "reset"
    /\ pending' = 0
    /\ pc' = [pc EXCEPT ![w] = "save"]
    /\ UNCHANGED <<envvars, disk, run, exit_status, data, save_lock, task,
                   snap, files_to_process, finished, audio_files, progress,
                   interrupted, groups, data_at_interrupt, save_failed,
                   loaded_ok, decoded, failed, persisted, first_run>>


(***************************************************************************)
(* ResumeCache::save (lib.rs:254-276), run by a worker at a checkpoint, by *)
(* walk_dir at its end (lib.rs:597-599) and by the Ctrl-C handler          *)
(* (main.rs:133).  Each step that touches the disk can fail; save then     *)
(* returns the error, which every caller drops, and the lock is released.  *)
(* The handler's closure keeps its Arc of the cache for the life of the    *)
(* process, so Drop (lib.rs:279-283) never runs.                           *)
(***************************************************************************)
\* a rename that leaves the destination as it was
rename_noop(d, from, to) == d

\* std::fs::rename(from, to)
rename(d, from, to) ==
    IF from = to THEN d
    ELSE [d EXCEPT ![to] = d[from], ![from] = Absent]

\* thread t is about to call save()
CallsSave(t) ==
    IF t \in Roots
    THEN /\ pc[t] = "par"
         /\ \A i \in 1..Len(files_to_process[t]) : <<t, i>> \in finished
    ELSE pc[t] = "save"

\* save() returns to its caller: a worker's closure returns, walk_dir
\* returns its records, the handler goes on to exit
SaveReturns(t) ==
    /\ save_lock' = "free"
    /\ snap' = [snap EXCEPT ![t] = EmptyMap]
    /\ IF t \in Workers
       THEN Returns(t)
       ELSE /\ pc' = [pc EXCEPT ![t] = IF t \in Roots THEN "done" ELSE "exit"]
            /\ UNCHANGED <<task, finished, audio_files, progress>>

\* lib.rs:256-271 the save lock is taken, the map is cloned under its lock
\* and the temporary file is created, which empties it
SaveBegin(t) ==
    /\ Running
    /\ CallsSave(t)
    /\ save_lock = "free"
    /\ save_lock' = t
    /\ snap' = [snap EXCEPT ![t] = data]
    /\ disk' = [disk EXCEPT ![TmpPath(state_path)] = Truncated]
    /\ pc' = [pc EXCEPT ![t] = "write"]
    /\ UNCHANGED <<envvars, run, exit_status, data, pending, task,
                   files_to_process, finished, audio_files, progress,
                   interrupted, groups, data_at_interrupt, save_failed,
                   loaded_ok, decoded, failed, persisted, first_run>>

\* lib.rs:263-271 create_dir_all or File::create fails
SaveBeginFails(t) ==
    /\ Running
    /\ CallsSave(t)
    /\ save_lock = "free"
    /\ save_failed' = TRUE
    /\ SaveReturns(t)
    /\ UNCHANGED <<envvars, disk, run, exit_status, data, pending,
                   files_to_process, interrupted, groups, data_at_interrupt,
                   loaded_ok, decoded, failed, persisted, first_run>>

\* lib.rs:272-273 to_writer_pretty and sync_all
SaveWrite(t) ==
    /\ Running
    /\ pc[t] = "write"
    /\ disk' = [disk EXCEPT ![TmpPath(state_path)] =
                   StoreFile(MapToJson(snap[t]))]
    /\ pc' = [pc EXCEPT ![t] = "rename"]
    /\ UNCHANGED <<envvars, run, exit_status, data, pending, save_lock, task,
                   snap, files_to_process, finished, audio_files, progress,
                   interrupted, groups, data_at_interrupt, save_failed,
                   loaded_ok, decoded, failed, persisted, first_run>>

\* the write or the sync fails: the temporary file stays, partly written
SaveWriteFails(t) ==
    /\ Running
    /\ pc[t] = "write"
    /\ save_failed' = TRUE
    /\ SaveReturns(t)
    /\ UNCHANGED <<envvars, disk, run, exit_status, data, pending,
                   files_to_process, interrupted, groups, data_at_interrupt,
                   loaded_ok, decoded, failed, persisted, first_run>>

\* lib.rs:274-275 the rename over the state file
SaveRename(t) ==
    /\ Running
    /\ pc[t] = "rename"
    /\ disk' = rename(disk, TmpPath(state_path), state_path)
    /\ persisted' = disk'[state_path]
    /\ SaveReturns(t)
    /\ UNCHANGED <<envvars, run, exit_status, data, pending,
                   files_to_process, interrupted, groups, data_at_interrupt,
                   save_failed, loaded_ok, decoded, failed, first_run>>

\* lib.rs:274 the rename fails
SaveRenameFails(t) ==
    /\ Running
    /\ pc[t] = "rename"
    /\ save_failed' = TRUE
    /\ SaveReturns(t)
    /\ UNCHANGED <<envvars, disk, run, exit_status, data, pending,
                   files_to_process, interrupted, groups, data_at_interrupt,
                   loaded_ok, decoded, failed, persisted, first_run>>

(***************************************************************************)
(* compare_audio_files (main.rs:171-204): the grouping.                    *)
(***************************************************************************)
\* main.rs:187-194 a faulty variant: the RMS level is left out of the key
KeyWithoutRms(file) ==
    <<file.total_samples, file.sample_rate, file.bit_depth, file.channels,
      to_bits(file.peak_level), to_bits(Lit(0))>>

\* main.rs:187-194
Key(file) ==
    <<file.total_samples, file.sample_rate, file.bit_depth, file.channels,
      to_bits(file.peak_level), to_bits(file.rms_db_level)>>

\* main.rs:196 file_map[key]: the files with the key, in input order
FilesWithKey(files, key) == SelectSeq(files, LAMBDA f : Key(f) = key)

\* main.rs:199-204 a faulty variant: only the key of the first file is grouped
identical_groups_of_first(files) ==
    IF files # <<>> /\ Len(FilesWithKey(files, Key(files[1]))) > 1
    THEN {FilesWithKey(files, Key(files[1]))}
    ELSE {}

\* main.rs:199-204
identical_groups(files) ==
    LET keys == {Key(files[i]) : i \in 1..Len(files)}
    IN {FilesWithKey(files, k) :
          k \in {x \in keys : Len(FilesWithKey(files, x)) > 1}}

\* main.rs:147-166 the records of every walk, in the order of the inputs
RECURSIVE Collected(_, _, _)
Collected(out, k, i) ==
    IF k > Len(RootOrder) THEN <<>>
    ELSE IF i > Len(files_to_process[RootOrder[k]])
    THEN Collected(out, k + 1, 1)
    ELSE (IF <<RootOrder[k], i>> \in DOMAIN out
          THEN <<out[<<RootOrder[k], i>>]>> ELSE <<>>)
         \o Collected(out, k, i + 1)

\* main.rs:147-168 every walk has returned: the files are compared and main
\* returns, which ends the process with status 0
MainFinish ==
    /\ Running
    /\ pc["main"] = "scan"
    /\ \A r \in Roots : pc[r] = "done"
    /\ groups' = identical_groups(Collected(audio_files, 1, 1))
    /\ pc' = [pc EXCEPT !["main"] = "exited"]
    /\ exit_status' = "0"
    /\ UNCHANGED <<envvars, disk, run, data, pending, save_lock, task, snap,
                   files_to_process, finished, audio_files, progress,
                   interrupted, data_at_interrupt, save_failed, loaded_ok,
                   decoded, failed, persisted, first_run>>

(***************************************************************************)
(* Ctrl-C (main.rs:130-141): the handler's thread saves and exits.         *)
(***************************************************************************)
Interrupt ==
    /\ Running
    /\ pc["main"] = "scan"
    /\ pc["sig"] = "wait"
    /\ interrupted' = TRUE
    /\ data_at_interrupt' = data
    /\ pc' = [pc EXCEPT !["sig"] = "save"]
    /\ UNCHANGED <<envvars, disk, run, exit_status, data, pending, save_lock,
                   task, snap, files_to_process, finished, audio_files,
                   progress, groups, save_failed, loaded_ok, decoded, failed,
                   persisted, first_run>>

\* main.rs:138 std::process::exit(130)
HandlerExit ==
    /\ Running
    /\ pc["sig"] = "exit"
    /\ exit_status' = "130"
    /\ UNCHANGED <<envvars, disk, run, memvars, persisted, first_run>>

(***************************************************************************)
(* The environment: the process is killed (or the machine stops) at any    *)
(* step, and the program is started again on the same disk.                *)
(***************************************************************************)
Crash ==
    /\ Running
    /\ exit_status' = "killed"
    /\ ResetMemory
    /\ UNCHANGED <<envvars, disk, run, persisted, first_run>>

Restart ==
    /\ ~Running
    /\ run < MaxRuns
    /\ run' = run + 1
    /\ exit_status' = "none"
    /\ first_run' = IF run = 1
                    THEN [status |-> exit_status, save_failed |-> save_failed,
                          groups |-> groups, failed |-> failed]
                    ELSE first_run
    /\ ResetMemory
    /\ persisted' = disk[state_path]
    /\ UNCHANGED <<envvars, disk>>

\* the steps of a run that nothing disturbs
Scan ==
    \/ MainArgs
    \/ MainLoad
    \/ \E r \in Roots : WalkDir(r)
    \/ \E w \in Workers :
          \/ WorkerSkip(w) \/ WorkerHit(w)
          \/ WorkerDecodeOk(w) \/ WorkerDecodeErr(w)
          \/ Store(w) \/ StoreReset(w)
    \/ \E t \in Workers \cup Roots \cup {"sig"} :
          SaveBegin(t) \/ SaveWrite(t) \/ SaveRename(t)
    \/ MainFinish

\* a save fails
SaveFailure ==
    \E t \in Workers \cup Roots \cup {"sig"} :
        SaveBeginFails(t) \/ SaveWriteFails(t) \/ SaveRenameFails(t)

(***************************************************************************)
(* Spec: one run of the program on two equal files under two nested roots, *)
(* with Ctrl-C, failing saves and a kill at any step.                      *)
(***************************************************************************)
TwoTones == [p \in Files |-> [size |-> 1, mtime |-> 1, content |-> Tone]]
ToneAndCorrupt == [TwoTones EXCEPT !["b"].content = Corrupt]

Init ==
    /\ fs \in {TwoTones, ToneAndCorrupt}
    /\ state_path \in StatePaths
    /\ disk \in {DiskWith(state_path, Absent),
                 DiskWith(state_path, LegacyStore(fs))}
    /\ save_every \in Checkpoints
    /\ skip_unique_size \in BOOLEAN
    /\ skip_unique_size => fs = TwoTones /\ disk[state_path] = Absent
    /\ ignore_size_expr = NoExpr
    /\ FirstStart

Next ==
    \/ Scan
    \/ SaveFailure
    \/ Interrupt
    \/ HandlerExit
    \/ Crash

Spec == Init /\ [][Next]_vars


(***************************************************************************)
(* Properties of Spec.                                                     *)
(***************************************************************************)
\* the file is a complete store holding every entry of map
FileHolds(file, map) ==
    /\ file.kind = "store"
    /\ \A p \in DOMAIN map :
          p \in DOMAIN file.json /\ file.json[p] = EntryToJson(map[p])

\* C3: atomic save.  At every point of every execution the state file is
\* absent, the complete store persisted before, or a complete snapshot of
\* the map put there by a rename: it never holds a partly written store, so
\* a process killed between the write of the temporary file and the rename
\* leaves the previous store for the next load.
C3_AtomicSave ==
    /\ disk[state_path].kind \in {"absent", "store"}
    /\ disk[state_path] = persisted

\* C6: cancellation keeps completed work.  When Ctrl-C arrived during the
\* scan and the process has ended, it ended with status 130 and the state
\* file holds every record that was in the map when Ctrl-C arrived.
C6_CancellationKeepsWork ==
    (interrupted /\ exit_status # "none") =>
        /\ exit_status = "130"
        /\ FileHolds(disk[state_path], data_at_interrupt)

\* C7: final flush.  When the scan of all roots has run to completion with
\* no Ctrl-C and no failed save, the state file equals the map in memory, the
\* records stored after the last checkpoint included.
C7_FinalFlush ==
    (exit_status = "0" /\ ~interrupted /\ ~save_failed) =>
        disk[state_path] = StoreFile(MapToJson(data))

\* C7 happens: a completed run whose last store came after the last
\* checkpoint (the counter is not back at 0) and stored both files
C7_Witness ==
    /\ exit_status = "0"
    /\ ~interrupted
    /\ ~save_failed
    /\ save_every = 2
    /\ pending = 1
    /\ "a" \in DOMAIN data
    /\ "a" \in decoded


(***************************************************************************)
(* SpecMetrics: the fingerprint of one stream.  A stream of up to          *)
(* MaxSamples samples at some width is decoded (process_audio_file with    *)
(* accumulate_metrics), the record is written to the state file and read   *)
(* back; a float of any kind is cleaned, written and read back; a state    *)
(* file of an earlier version, its rms_db_level null or absent, is read.   *)
(* The pipeline stands still.                                              *)
(***************************************************************************)
MaxSamples == 3

\* the sequences over S of length up to n
SeqsUpTo(S, n) == UNION {[1..k -> S] : k \in 0..n}

\* a FLAC stream may declare a width get_max_amplitude has no full scale for
StreamDepths == BitDepths \cup {12}

\* the streams: a container, a width, the samples, the build's setting
Streams ==
    UNION {[ext : {"wav", "flac"}, bit_depth : {b},
            samples : SeqsUpTo(SampleValues(b), MaxSamples),
            overflow_checks : BOOLEAN] : b \in StreamDepths}

\* the floats a computation can come to
Floats == {NaN, PosInf, NegInf, Lit(0), default_rms_db_level,
           Db(<<-1>>, 1, 32767)}

\* the file content of a stream
StreamContent(st) ==
    [ext |-> st.ext, readable |-> TRUE, has_samples |-> TRUE,
     sample_rate |-> 44100, bits_per_sample |-> st.bit_depth, channels |-> 1,
     samples |-> st.samples]

\* the pipeline before its first step, on an empty state file
PipelineIdle ==
    /\ fs = [p \in Files |-> [size |-> 1, mtime |-> 1, content |-> Tone]]
    /\ state_path = [stem |-> "state", ext |-> <<"json">>]
    /\ disk = DiskWith(state_path, Absent)
    /\ save_every = 1
    /\ skip_unique_size = FALSE
    /\ ignore_size_expr = NoExpr
    /\ ignore_size = NoFilter
    /\ run = 1
    /\ exit_status = "none"
    /\ FreshMemory
    /\ persisted = disk[state_path]
    /\ first_run = NoFirstRun

pipevars == <<fs, state_path, save_every, skip_unique_size, ignore_size_expr,
              ignore_size, disk, run,
              exit_status, memvars, persisted, first_run>>

InitMetrics ==
    /\ PipelineIdle
    /\ call \in [op : {"stream"}, stream : Streams]
             \cup [op : {"float"}, v : Floats]
             \cup [op : {"legacy"}, rms : {JsonNull, JsonMissing}]

\* lib.rs:606-666 the stream is decoded; m is what accumulate_metrics gave
Decode ==
    /\ call.op = "stream"
    /\ LET st == call.stream
           m == accumulate_metrics(st.samples, st.bit_depth, st.overflow_checks)
           res == process_audio_file("a", StreamContent(st), st.overflow_checks)
       IN call' = [op |-> "decoded", stream |-> st, m |-> m, res |-> res]
    /\ UNCHANGED pipevars

\* lib.rs:116-122 and the field's (de)serializer: a float is cleaned, and it
\* is written to the state file and read back
CleanFloat ==
    /\ call.op = "float"
    /\ call' = [op |-> "cleaned", v |-> call.v,
                cleaned |-> clean_rms_db_level(call.v),
                reloaded |-> deserialize_rms_db_level(serialize_f64(call.v))]
    /\ UNCHANGED pipevars

\* lib.rs:254-276 the record of a decoded stream as the state file holds it
Serialize ==
    /\ call.op = "decoded"
    /\ call.res.ok
    /\ ~call.res.panic
    /\ call' = [op |-> "saved", stream |-> call.stream,
                json |-> EntryToJson(CachedEntry(call.res.audio_file, 1, 1))]
    /\ UNCHANGED pipevars

\* lib.rs:178-200 the entry is read back from the state file
Deserialize ==
    /\ call.op = "saved"
    /\ call' = [op |-> "loaded", json |-> call.json,
                entry |-> EntryFromJson(call.json)]
    /\ UNCHANGED pipevars

\* lib.rs:178-200 an entry of an earlier version is read
DeserializeLegacy ==
    /\ call.op = "legacy"
    /\ LET e == CachedEntry(DefaultAudioFile("a"), 1, 1)
           je == [EntryToJson(e) EXCEPT !.audio_file.rms_db_level = call.rms]
       IN call' = [op |-> "loaded", json |-> je, entry |-> EntryFromJson(je)]
    /\ UNCHANGED pipevars

NextMetrics ==
    \/ Decode
    \/ CleanFloat
    \/ Serialize
    \/ Deserialize
    \/ DeserializeLegacy

SpecMetrics == InitMetrics /\ [][NextMetrics]_vars

\* every sample of the stream is 0
AllZero(samples) == \A i \in 1..Len(samples) : samples[i] = 0

\* the float lies in [0, 1]
InUnitRange(v) ==
    \/ v = Lit(0)
    \/ v.k = "ratio" /\ 0 <= v.n /\ v.n <= v.d /\ v.d > 0

\* the float is 0
IsZero(v) == v = Lit(0) \/ (v.k = "ratio" /\ v.n = 0)

\* C9: for every supported bit depth and every sequence of samples of that
\* width, the most negative one included, the peak accumulate_metrics
\* returns lies in [0, 1], and it is 0 exactly when every sample is 0.
C9_PeakInUnitRange ==
    (/\ call.op = "decoded"
     /\ call.stream.bit_depth \in BitDepths
     /\ ~call.m.panic) =>
        /\ InUnitRange(call.m.peak_level)
        /\ IsZero(call.m.peak_level) <=> AllZero(call.stream.samples)

\* C10: rms_db_level is finite in every record: as accumulate_metrics
\* returns it, as the decoded record carries it, as the state file gives it
\* back, and after cleaning or reloading any float; an empty stream, a silent
\* stream and a non-finite, null or absent value give the sentinel -1000.0.
C10_RmsAlwaysFinite ==
    /\ call.op = "decoded" /\ ~call.m.panic =>
          /\ is_finite(call.m.rms_db_level)
          /\ AllZero(call.stream.samples) =>
                call.m.rms_db_level = Lit(SentinelDb)
          /\ call.res.ok =>
                call.res.audio_file.rms_db_level = call.m.rms_db_level
    /\ call.op = "cleaned" =>
          /\ is_finite(call.cleaned) /\ is_finite(call.reloaded)
          /\ ~is_finite(call.v) =>
                call.cleaned = Lit(SentinelDb) /\ call.reloaded = Lit(SentinelDb)
          /\ is_finite(call.v) => call.cleaned = call.v /\ call.reloaded = call.v
    /\ call.op = "loaded" =>
          /\ is_finite(call.entry.audio_file.rms_db_level)
          /\ call.json.audio_file.rms_db_level.j \in {"null", "missing"} =>
                call.entry.audio_file.rms_db_level = Lit(SentinelDb)

\* C10 happens: a silent 16-bit stream of MaxSamples samples was decoded and its
\* record carries the sentinel
C10_Witness ==
    /\ call.op = "decoded"
    /\ call.res.ok
    /\ call.stream.bit_depth = 16
    /\ Len(call.stream.samples) = MaxSamples
    /\ AllZero(call.stream.samples)
    /\ call.res.audio_file.rms_db_level = Lit(SentinelDb)


(***************************************************************************)
(* SpecGroup: compare_audio_files on up to MaxFiles records.  A record is  *)
(* the record of Tone or differs from it in one of the six metrics, under  *)
(* one of two paths, each with its own size and time.                      *)
(***************************************************************************)
MaxFiles == 3

\* the record process_audio_file gives for Tone under a path
ToneRecord(path) == process_audio_file(path, Tone, FALSE).audio_file

\* the records that differ from r in exactly one metric
OneMetricOff(r) ==
    {[r EXCEPT !.total_samples = 3], [r EXCEPT !.sample_rate = 48000],
     [r EXCEPT !.bit_depth = 24], [r EXCEPT !.channels = 2],
     [r EXCEPT !.peak_level = Lit(0)],
     [r EXCEPT !.rms_db_level = default_rms_db_level]}

\* the records compared: path "a" with size and time 1, "b" with 2
Records ==
    UNION {{[r EXCEPT !.file_size = 1, !.modified_secs = 1]
               : r \in {ToneRecord("a")} \cup OneMetricOff(ToneRecord("a"))},
           {[r EXCEPT !.file_size = 2, !.modified_secs = 2]
               : r \in {ToneRecord("b")} \cup OneMetricOff(ToneRecord("b"))}}

InitGroup ==
    /\ PipelineIdle
    /\ call \in [op : {"files"}, files : SeqsUpTo(Records, MaxFiles)]

\* main.rs:210-218 the signature of a group: its paths sorted, which is how
\* often each path occurs in it
Signature(group) ==
    [p \in Files |-> Cardinality({i \in 1..Len(group) : group[i].file_path = p})]

\* main.rs:171-234 compare_audio_files: the groups, and the signatures of
\* the groups it prints (a group whose signature was seen is not printed)
Compare ==
    /\ call.op = "files"
    /\ LET found == identical_groups(call.files)
       IN call' = [op |-> "compared", files |-> call.files, groups |-> found,
                   printed |-> {Signature(g) : g \in found}]
    /\ UNCHANGED pipevars

NextGroup == Compare

SpecGroup == InitGroup /\ [][NextGroup]_vars

\* the six metrics of two records are equal, the floats bit for bit
SameMetrics(f, g) ==
    /\ f.total_samples = g.total_samples
    /\ f.sample_rate = g.sample_rate
    /\ f.bit_depth = g.bit_depth
    /\ f.channels = g.channels
    /\ f.peak_level = g.peak_level
    /\ f.rms_db_level = g.rms_db_level

\* the records at positions i and j of the list are together in a group
Together(groups_found, files, i, j) ==
    \E g \in groups_found : \E m, n \in 1..Len(g) :
        m # n /\ g[m] = files[i] /\ g[n] = files[j]

\* C8: two records are reported in the same group exactly when their six
\* metrics are equal; path, size and time play no part; every group has at
\* least two records, and a record whose metrics no other record shares is
\* in no group.
C8_GroupingByMetrics ==
    call.op = "compared" =>
        /\ \A i, j \in 1..Len(call.files) :
              i # j => (Together(call.groups, call.files, i, j)
                          <=> SameMetrics(call.files[i], call.files[j]))
        /\ \A g \in call.groups : Len(g) >= 2
        /\ \A s \in call.printed : s["a"] + s["b"] >= 2
        /\ \A i \in 1..Len(call.files) :
              (\A j \in 1..Len(call.files) :
                   j # i => ~SameMetrics(call.files[i], call.files[j]))
              => \A g \in call.groups : \A m \in 1..Len(g) : g[m] # call.files[i]

\* C8 happens: of three records two share their metrics under different
\* paths, sizes and times and are grouped, and the third, one metric off,
\* is in no group
C8_Witness ==
    /\ call.op = "compared"
    /\ Len(call.files) = 3
    /\ Cardinality(call.groups) = 1
    /\ \E g \in call.groups :
          /\ Len(g) = 2
          /\ g[1].file_path # g[2].file_path
          /\ g[1].file_size # g[2].file_size
          /\ \E i \in 1..3 :
                /\ call.files[i].rms_db_level # g[1].rms_db_level
                /\ call.files[i].peak_level = g[1].peak_level


(***************************************************************************)
(* SpecCache: ResumeCache used by one thread.  Any record is stored under  *)
(* any size and time, and any path is looked up under any size and time;   *)
(* a store that reaches the checkpoint saves.                              *)
(* call.stored remembers the arguments of the last store of each path.     *)
(***************************************************************************)
Times == {1, 2}

\* the records stored: the record of Tone under a path; the size and time a
\* record carries need not be the ones it is stored under
CacheRecords ==
    {[ToneRecord(p) EXCEPT !.file_size = s, !.modified_secs = s] :
        p \in Files, s \in {0, 1}}

\* lib.rs:254-276 a save that nothing interrupts
save_to_disk(d, path, map) ==
    rename([d EXCEPT ![TmpPath(path)] = StoreFile(MapToJson(map))],
           TmpPath(path), path)

cachevars == <<fs, state_path, save_every, skip_unique_size, ignore_size_expr,
               ignore_size, run, exit_status,
               save_lock, pc, task, snap, files_to_process, finished,
               audio_files, progress, interrupted, groups, data_at_interrupt,
               loaded_ok, decoded, failed, first_run>>

InitCache ==
    /\ fs = [p \in Files |-> [size |-> 1, mtime |-> 1, content |-> Tone]]
    /\ state_path = [stem |-> "state", ext |-> <<"json">>]
    /\ disk = DiskWith(state_path, Absent)
    /\ save_every \in Checkpoints
    /\ skip_unique_size = FALSE
    /\ ignore_size_expr = NoExpr
    /\ ignore_size = NoFilter
    /\ run = 1
    /\ exit_status = "none"
    /\ FreshMemory
    /\ persisted = disk[state_path]
    /\ first_run = NoFirstRun
    /\ call = [op |-> "none", stored |-> EmptyMap]

\* lib.rs:233-252 ResumeCache::store, the checkpoint's save included
CacheStore ==
    \E r \in CacheRecords, size \in Sizes, mtime \in Times :
        LET map == insert_entry(data, r, size, mtime)
            count == pending + 1
        IN /\ data' = map
           /\ IF count >= save_every
              THEN /\ pending' = 0
                   /\ disk' = save_to_disk(disk, state_path, map)
              ELSE /\ pending' = count
                   /\ UNCHANGED disk
           /\ persisted' = disk'[state_path]
           /\ call' = [op |-> "store", audio_file |-> r, file_size |-> size,
                       modified_secs |-> mtime,
                       stored |-> (r.file_path :>
                                     [audio_file |-> r, file_size |-> size,
                                      modified_secs |-> mtime]) @@ call.stored]
           /\ UNCHANGED <<cachevars, save_failed>>

\* lib.rs:216-231 ResumeCache::lookup
CacheLookup ==
    \E path \in Files, size \in Sizes, mtime \in Times :
        /\ call' = [op |-> "lookup", file_path |-> path, file_size |-> size,
                    modified_secs |-> mtime,
                    result |-> lookup(data, path, size, mtime),
                    map_before |-> data, stored |-> call.stored]
        /\ UNCHANGED <<cachevars, data, pending, disk, save_failed, persisted>>

NextCache == CacheStore \/ CacheLookup

SpecCache == InitCache /\ [][NextCache]_vars

\* the last store of the path of the last lookup had the lookup's size and
\* time
LookupMatchesStore ==
    /\ call.file_path \in DOMAIN call.stored
    /\ call.stored[call.file_path].file_size = call.file_size
    /\ call.stored[call.file_path].modified_secs = call.modified_secs

\* C1: cache round trip.  After store(r, size, mtime) and no later store for
\* r's path, lookup(r.file_path, size, mtime) returns a record equal to r in
\* every field.
C1_CacheRoundTrip ==
    (call.op = "lookup" /\ LookupMatchesStore) =>
        /\ call.result.some
        /\ call.result.audio_file = call.stored[call.file_path].audio_file

\* C1 happens: a record carrying another size than the one it was stored
\* under was stored after an earlier store of its path, and looked up
C1_Witness ==
    /\ call.op = "lookup"
    /\ LookupMatchesStore
    /\ call.result.some
    /\ call.result.audio_file.file_size # call.file_size
    /\ Cardinality(DOMAIN data) = 2

\* C2: lookup returns a record only when the path has an entry and both the
\* size and the time stored with it equal the arguments; an unknown path, a
\* different size or a different time give nothing; lookup leaves the map
\* as it was.
C2_LookupExactMatch ==
    call.op = "lookup" =>
        /\ call.result.some <=> LookupMatchesStore
        /\ ~call.result.some => call.result = None
        /\ data = call.map_before

\* C2 happens: a lookup with the stored size and another time than the
\* stored one misses on a path that has an entry
C2_Witness ==
    /\ call.op = "lookup"
    /\ call.file_path \in DOMAIN data
    /\ data[call.file_path].file_size = call.file_size
    /\ data[call.file_path].modified_secs # call.modified_secs
    /\ ~call.result.some


(***************************************************************************)
(* SpecResume: the program is run to its end, and run again on the same    *)
(* files and the same disk.  Nothing interrupts a run and no save fails;   *)
(* the state file the first run finds is absent, unparsable or of an       *)
(* earlier version, and opening or renaming it can fail.                   *)
(***************************************************************************)
InitResume ==
    /\ fs \in Layouts
    /\ state_path \in StatePaths \cup {BarePath}
    /\ disk \in {DiskWith(state_path, Absent), DiskWith(state_path, Garbage),
                 DiskWith(state_path, LegacyStore(fs))}
    /\ save_every \in Checkpoints
    /\ skip_unique_size \in BOOLEAN
    /\ state_path = BarePath => disk[state_path] = Garbage /\ save_every = 2
    /\ skip_unique_size => disk[state_path] = Absent /\ save_every = 2
    /\ ignore_size_expr = NoExpr
    /\ FirstStart

NextResume == Scan \/ Restart

SpecResume == InitResume /\ [][NextResume]_vars

\* the step is the load of the state file
LoadStep == pc["main"] = "load" /\ pc'["main"] # "load" /\ run' = run

\* the second run follows a first run that ran to its end with every save
\* done, and has loaded the state file
Resumed ==
    /\ run = 2
    /\ first_run.status = "0"
    /\ ~first_run.save_failed
    /\ pc["main"] # "load"
    /\ loaded_ok

\* C4 as stated: the second run over the same files, loading the state file
\* the first run saved, invokes the decoder zero times and reports the groups
\* the first run reported.
C4_ResumeDecodesNothing ==
    Resumed =>
        /\ decoded = {}
        /\ exit_status = "0" => groups = first_run.groups

\* C4 as amended: the second run invokes the decoder only on the files whose
\* decode failed in the first run, and reports the groups the first run
\* reported.
C4_ResumeDecodesOnlyFailed ==
    Resumed =>
        /\ decoded \subseteq first_run.failed
        /\ decoded \cap DOMAIN data = {}
        /\ exit_status = "0" => groups = first_run.groups

\* C4 happens: the second run has ended, with a group of two files reported
\* from the cache and nothing decoded
C4_Witness ==
    /\ Resumed
    /\ exit_status = "0"
    /\ decoded = {}
    /\ DOMAIN data = {"a", "b"}
    /\ groups # {}
    /\ groups = first_run.groups

\* C5 as stated: load never ends the process; a missing state file gives an
\* empty store and renames nothing; a state file that cannot be opened or
\* parsed gives an empty store and is renamed aside with its contents, and
\* no later step writes to the file it was renamed to.
C5_LoadRenamesBroken ==
    [][/\ LoadStep =>
            LET file == disk[state_path]
            IN /\ exit_status' = "none"
               /\ file.kind = "absent" => data' = EmptyMap /\ disk' = disk
               /\ (file.kind # "absent" /\ ~loaded_ok') =>
                     /\ data' = EmptyMap
                     /\ disk'[BrokenPath(state_path)] = file
                     /\ disk'[state_path] = Absent
       /\ ~LoadStep =>
            disk'[BrokenPath(state_path)] = disk[BrokenPath(state_path)]]_vars

\* C5 as amended: the same, but the rename of the broken file can fail, and
\* then the file stays where it was, for a later save to overwrite.
C5_LoadRenamesBrokenIfItCan ==
    [][/\ LoadStep =>
            LET file == disk[state_path]
            IN /\ exit_status' = "none"
               /\ file.kind = "absent" => data' = EmptyMap /\ disk' = disk
               /\ (file.kind # "absent" /\ ~loaded_ok') =>
                     /\ data' = EmptyMap
                     /\ \/ /\ disk'[BrokenPath(state_path)] = file
                           /\ disk'[state_path] = Absent
                        \/ disk' = disk
       /\ ~LoadStep =>
            disk'[BrokenPath(state_path)] = disk[BrokenPath(state_path)]]_vars

\* C5 happens: an unparsable state file was renamed aside, the run went on
\* to its end and saved a new state file next to it
C5_Witness ==
    /\ run = 1
    /\ exit_status = "0"
    /\ ~loaded_ok
    /\ disk[BrokenPath(state_path)] = Garbage
    /\ disk[state_path].kind = "store"
    /\ DOMAIN data # {}

(***************************************************************************)
(* SpecFilter: undisturbed runs with an --ignore-size option, on files     *)
(* whose sizes lie on both sides of the filter's bounds and of the 800 MiB *)
(* ceiling.                                                                *)
(***************************************************************************)
\* the expressions <2, >2, 2..3 and >800MB
FilterExprs ==
    {<<"<", "2">>, <<">", "2">>, <<"2", ".", ".", "3">>,
     <<">", "8", "0", "0", "M", "B">>}

FilterLayouts ==
    {f \in [Files -> [size : {1, 2, 3, 4, 800 * 1024 * 1024,
                              900 * 1024 * 1024},
                      mtime : {1}, content : {Tone}]] :
        f["a"].size \in {2, 3, 900 * 1024 * 1024}}

InitFilter ==
    /\ fs \in FilterLayouts
    /\ state_path = [stem |-> "state", ext |-> <<"json">>]
    /\ disk = DiskWith(state_path, Absent)
    /\ save_every = 2
    /\ skip_unique_size = FALSE
    /\ ignore_size_expr \in {SomeExpr(e) : e \in FilterExprs}
    /\ FirstStart

NextFilter ==
    \/ MainArgs
    \/ MainLoad
    \/ \E r \in Roots : WalkDir(r)
    \/ \E w \in Workers :
          WorkerHit(w) \/ WorkerDecodeOk(w) \/ Store(w) \/ StoreReset(w)
    \/ \E t \in Workers \cup Roots :
          SaveBegin(t) \/ SaveWrite(t) \/ SaveRename(t)
    \/ MainFinish

SpecFilter == InitFilter /\ [][NextFilter]_vars

\* path is one of the candidates of root r
IsCandidate(r, path) ==
    \E i \in 1..Len(files_to_process[r]) : files_to_process[r][i].path = path

\* what the claim says the filter does to a file of this size
Ignored(size) ==
    \/ ignore_size.kind = "Lt" /\ size < ignore_size.a
    \/ ignore_size.kind = "Gt" /\ size > ignore_size.a
    \/ ignore_size.kind = "Range" /\ ignore_size.a <= size
                                  /\ size <= ignore_size.b

\* C11: a file is dropped by the size filter exactly when its size is
\* strictly below N for <N, strictly above N for >N, and within A..B, both
\* ends included, for a range; a dropped file is never decoded, and a file
\* that is not dropped and is at most 800 MiB is a candidate.  With >800MB
\* a file of 900 MiB is dropped and a file of exactly 800 MiB is kept.
C11_SizeFilterBoundaries ==
    /\ pc["main"] # "args" =>
          /\ ignore_size_expr.expr = <<"<", "2">> => ignore_size = Lt(2)
          /\ ignore_size_expr.expr = <<">", "2">> => ignore_size = Gt(2)
          /\ ignore_size_expr.expr = <<"2", ".", ".", "3">> =>
                ignore_size = Range(2, 3)
          /\ ignore_size_expr.expr = <<">", "8", "0", "0", "M", "B">> =>
                ignore_size = Gt(800 * 1024 * 1024)
    /\ \A r \in Roots : \A i \in 1..Len(RootFiles(r)) :
          LET path == RootFiles(r)[i]
              size == fs[path].size
          IN /\ Ignored(size) => path \notin decoded
             /\ pc[r] # "walk" =>
                   (IsCandidate(r, path) <=>
                       ~Ignored(size) /\ size <= 800 * 1024 * 1024)
             /\ ignore_size = Gt(800 * 1024 * 1024) /\ pc[r] # "walk" =>
                   /\ size = 900 * 1024 * 1024 => ~IsCandidate(r, path)
                   /\ size = 800 * 1024 * 1024 => IsCandidate(r, path)

\* a finished run with >800MB: "a" of 900 MiB was never decoded, "b" of
\* exactly 800 MiB was
C11_Witness ==
    /\ exit_status = "0"
    /\ ignore_size = Gt(800 * 1024 * 1024)
    /\ fs["a"].size = 900 * 1024 * 1024
    /\ fs["b"].size = 800 * 1024 * 1024
    /\ "a" \notin decoded
    /\ "b" \in decoded
    /\ \E k \in DOMAIN audio_files : audio_files[k].file_path = "b"

(***************************************************************************)
(* SpecArgs: the start of a run for every --ignore-size expression of up   *)
(* to MaxExpr characters and a checkpoint of 0 or 1: the options, the load *)
(* and the walks.                                                          *)
(***************************************************************************)
MaxExpr == 3

ExprChars == {"<", ">", ".", "1", "2", "k", "x", " ", "U+00E9"}

InitArgs ==
    /\ fs = TwoTones
    /\ state_path = [stem |-> "state", ext |-> <<"json">>]
    /\ disk \in {DiskWith(state_path, Absent), DiskWith(state_path, Garbage)}
    /\ save_every \in {0, 1}
    /\ skip_unique_size = FALSE
    /\ ignore_size_expr \in
          {NoExpr} \cup {SomeExpr(e) : e \in SeqsUpTo(ExprChars, MaxExpr)}
    /\ FirstStart

NextArgs ==
    \/ MainArgs
    \/ MainLoad
    \/ \E r \in Roots : WalkDir(r)

SpecArgs == InitArgs /\ [][NextArgs]_vars

\* an expression that is empty or that parse_size_filter does not accept
Malformed(expr) ==
    trim(expr) = <<>> \/ parse_size_filter(expr).kind # "ok"

\* C12: with a malformed --ignore-size expression the process never ends in
\* a crash: it ends with status 2, before the state file is loaded (the
\* cache and the disk are as they were) and before any root is walked.
C12_MalformedExitsWith2 ==
    ignore_size_expr.some /\ Malformed(ignore_size_expr.expr) =>
        /\ exit_status \in {"none", "2"}
        /\ pc["main"] = "args"
        /\ data = EmptyMap
        /\ disk[BrokenPath(state_path)] = Absent
        /\ \A r \in Roots : pc[r] = "walk"

(***************************************************************************)
(* Properties of the worker closures, checked on the undisturbed runs of   *)
(* SpecResume and on the runs of Spec.                                     *)
(***************************************************************************)
\* every candidate of root r has been through its closure
WalkComplete(r) ==
    /\ pc[r] # "walk"
    /\ \A i \in 1..Len(files_to_process[r]) : <<r, i>> \in finished

\* C13: the progress position of a walk never exceeds the number of its
\* candidates and equals it once every candidate has been processed, under
\* every interleaving of the workers and of the walks of several roots.
C13_ProgressCountsOnce ==
    \A r \in Roots :
        /\ progress[r] <= Len(files_to_process[r])
        /\ WalkComplete(r) => progress[r] = Len(files_to_process[r])

\* a worker takes a candidate and starts to decode it
DecodeStarts == \E w \in Workers : WorkerDecodeOk(w) \/ WorkerDecodeErr(w)

\* C14: once Ctrl-C has been delivered no worker starts to decode a
\* candidate; only the work in flight, the flush of the cache and the end
\* of the process follow.
C14_CancellationStopsNewWork == [][interrupted => ~DecodeStarts]_vars

(***************************************************************************)
(* SpecCheckpoint: undisturbed runs on three equal files, "b" under both   *)
(* roots, starting from no state file: up to four stores by two workers.   *)
(***************************************************************************)
ThreeTones ==
    [p \in {"a", "b", "c"} |-> [size |-> 1, mtime |-> 1, content |-> Tone]]

InitCheckpoint ==
    /\ fs = ThreeTones
    /\ state_path = [stem |-> "state", ext |-> <<"json">>]
    /\ disk = DiskWith(state_path, Absent)
    /\ save_every \in Checkpoints
    /\ skip_unique_size = FALSE
    /\ ignore_size_expr = NoExpr
    /\ FirstStart

NextCheckpoint ==
    \/ MainArgs
    \/ MainLoad
    \/ \E r \in Roots : WalkDir(r)
    \/ \E w \in Workers :
          WorkerHit(w) \/ WorkerDecodeOk(w) \/ Store(w) \/ StoreReset(w)
    \/ \E t \in Workers \cup Roots :
          SaveBegin(t) \/ SaveWrite(t) \/ SaveRename(t)
    \/ MainFinish

SpecCheckpoint == InitCheckpoint /\ [][NextCheckpoint]_vars

\* C15: the store that brings the counter to save_every goes on to reset it
\* and to save; the snapshot of its save holds its record; and the reset
\* loses no insertion from the count: the counter it sets to 0 holds no
\* insertion that has yet to bring it to save_every.
C15_CheckpointCountsEveryStore ==
    [][\A w \in Workers :
          /\ pc[w] = "store" /\ pc'[w] # "store" =>
                /\ pending' = pending + 1
                /\ pending' = save_every => pc'[w] = "reset"
          /\ pc[w] = "reset" /\ pc'[w] # "reset" =>
                /\ pending' = 0
                /\ pc'[w] = "save"
                /\ pending = 0 \/ pending >= save_every
          /\ pc[w] = "save" /\ pc'[w] = "write" =>
                /\ task[w].path \in DOMAIN snap'[w]
                /\ snap'[w][task[w].path].audio_file = task[w].audio_file
      ]_vars

\* the cache holds an entry for candidate i of root r with its size and time
CacheHit(r, i) ==
    LET c == files_to_process[r][i]
    IN /\ c.path \in DOMAIN data
       /\ data[c.path].file_size = c.size
       /\ data[c.path].modified_secs = c.modified_secs

\* walk_dir does not skip candidate i of root r for its size
NotSkipped(r, i) ==
    ~is_unique_skip(skip_unique_size, files_to_process[r],
                    files_to_process[r][i].size)

\* C16: a candidate that is not skipped for its size and whose lookup hits
\* is never handed to the decoder; the step that finishes it emits exactly
\* the cached record and leaves the cache, the checkpoint counter and the
\* disk as they were.
C16_CacheHitPath ==
    [][\A r \in Roots : \A i \in 1..Len(files_to_process[r]) :
          Unclaimed(r, i) /\ CacheHit(r, i) /\ NotSkipped(r, i) =>
             /\ \A w \in Workers :
                   ~(/\ pc'[w] = "store"
                     /\ <<task'[w].root, task'[w].idx>> = <<r, i>>)
             /\ <<r, i>> \in finished' =>
                   /\ audio_files' =
                         (<<r, i>> :> data[files_to_process[r][i].path].audio_file)
                             @@ audio_files
                   /\ decoded' = decoded
                   /\ data' = data
                   /\ pending' = pending
                   /\ disk' = disk
      ]_vars

\* the second run has emitted the cached record of a file it never decoded
C16_Witness ==
    /\ run = 2
    /\ \E r \in Roots : \E i \in 1..Len(files_to_process[r]) :
          LET path == files_to_process[r][i].path
          IN /\ <<r, i>> \in finished
             /\ <<r, i>> \in DOMAIN audio_files
             /\ path \notin decoded
             /\ audio_files[<<r, i>>] = data[path].audio_file
             /\ pending = 0

\* every record emitted so far is in the cache under its candidate's path,
\* with the size and the time walk_dir read
StoredAsWalked ==
    \A r \in Roots : \A i \in 1..Len(files_to_process[r]) :
        <<r, i>> \in DOMAIN audio_files =>
            LET c == files_to_process[r][i]
            IN /\ c.path \in DOMAIN data
               /\ data[c.path] =
                     CachedEntry(audio_files[<<r, i>>], c.size, c.modified_secs)
               /\ audio_files[<<r, i>>].file_path = c.path

\* the run has ended normally: every candidate has been processed, and the
\* ones with a record are those that were not skipped and can be decoded
AllProcessed ==
    exit_status = "0" =>
        \A r \in Roots : \A i \in 1..Len(files_to_process[r]) :
            /\ <<r, i>> \in finished
            /\ <<r, i>> \in DOMAIN audio_files <=>
                  /\ NotSkipped(r, i)
                  /\ fs[files_to_process[r][i].path].content # Corrupt

UniqueSizeInRun(r, i) ==
    \A q \in Roots : \A j \in 1..Len(files_to_process[q]) :
        <<q, j>> # <<r, i>> =>
            files_to_process[q][j].size # files_to_process[r][i].size

\* candidate i of root r went through its closure without a record though
\* its file can be decoded: it was skipped
WasSkipped(r, i) ==
    /\ <<r, i>> \in finished
    /\ <<r, i>> \notin DOMAIN audio_files
    /\ fs[files_to_process[r][i].path].content # Corrupt

\* C18: once every root has been walked, a processed candidate was skipped
\* if and only if --skip-unique-size is set and no other candidate of the
\* run, across every root, has its size.
C18_UniqueSizeAcrossRoots ==
    (\A q \in Roots : pc[q] # "walk") =>
        \A r \in Roots : \A i \in 1..Len(files_to_process[r]) :
            <<r, i>> \in finished =>
                (WasSkipped(r, i) <=>
                    skip_unique_size /\ UniqueSizeInRun(r, i))

\* the groups as sets of paths
PathSets(found) == {{g[i].file_path : i \in 1..Len(g)} : g \in found}

\* the entries of the cache that this run did not store: the ones it loaded
LoadedCache == [p \in DOMAIN data \ decoded |-> data[p]]

\* the records a run emits for the candidates of root k from the i-th on,
\* computed one candidate after the other from the files and the loaded
\* cache alone
RECURSIVE ExpectedFrom(_, _)
ExpectedFrom(k, i) ==
    IF k > Len(RootOrder) THEN <<>>
    ELSE IF i > Len(files_to_process[RootOrder[k]])
    THEN ExpectedFrom(k + 1, 1)
    ELSE LET c == files_to_process[RootOrder[k]][i]
             res == process_audio_file(c.path, fs[c.path].content, FALSE)
         IN (IF ~NotSkipped(RootOrder[k], i) THEN <<>>
             ELSE IF c.path \in DOMAIN LoadedCache
             THEN <<LoadedCache[c.path].audio_file>>
             ELSE IF res.ok
             THEN <<[res.audio_file EXCEPT !.file_size = c.size,
                                           !.modified_secs = c.modified_secs]>>
             ELSE <<>>)
            \o ExpectedFrom(k, i + 1)

\* the orders in which n records can reach compare_audio_files
Orders(n) == {p \in [1..n -> 1..n] : \A i, j \in 1..n : p[i] = p[j] => i = j}

\* C19: when a run ends normally, the groups it reports, each as a set of
\* paths, are those of the files and the loaded cache whatever the workers'
\* interleaving was, and they are the same for every order in which the
\* emitted records reach the grouping.
C19_OrderIndependence ==
    exit_status = "0" =>
        LET emitted == Collected(audio_files, 1, 1)
        IN /\ PathSets(groups) = PathSets(identical_groups(ExpectedFrom(1, 1)))
           /\ \A p \in Orders(Len(emitted)) :
                 PathSets(identical_groups([k \in 1..Len(emitted) |->
                                               emitted[p[k]]]))
                    = PathSets(groups)

\* a first run has ended normally after "b" was decoded for one root and
\* taken from the cache for the other, and it reports a group
C19_Witness ==
    /\ exit_status = "0"
    /\ run = 1
    /\ groups # {}
    /\ Len(Collected(audio_files, 1, 1)) = 3
    /\ "b" \in decoded
    /\ "a" \notin decoded
    /\ Key(audio_files[<<"r1", 1>>]) # Key(audio_files[<<"r1", 2>>])

\* C20: for FLAC and for WAV, process_audio_file returns an error when the
\* stream has no sample or a bit depth outside {8, 16, 24, 32}; so every
\* record it returns has a bit depth among these.
C20_DecoderRejects ==
    call.op = "decoded" =>
        /\ call.stream.samples = <<>> => ~call.res.ok
        /\ call.stream.bit_depth \notin {8, 16, 24, 32} => ~call.res.ok
        /\ call.res.ok => call.res.audio_file.bit_depth \in {8, 16, 24, 32}


(***************************************************************************)
(* SpecModify: the program is run to its end twice on two equal files,     *)
(* starting from no state file, while the environment rewrites files: a    *)
(* rewritten file holds silence and has a new size and a new modification  *)
(* time.  A file is rewritten at most once, at any moment: between the     *)
(* walker's metadata read and the decode, between a decode and the store,  *)
(* or between the two runs.                                                *)
(***************************************************************************)
\* the files the environment rewrites: the one that lies under both roots
Rewritable == {"b"}

\* what a file is once the environment has rewritten it
Rewritten == [size |-> 2, mtime |-> 2, content |-> Silence]

\* the environment rewrites file p
EnvModify(p) ==
    /\ p \in Rewritable
    /\ fs[p] # Rewritten
    /\ fs' = [fs EXCEPT ![p] = Rewritten]
    /\ UNCHANGED <<state_path, save_every, skip_unique_size, ignore_size_expr,
                   ignore_size, call, disk, run, exit_status, memvars,
                   persisted, first_run>>

InitModify ==
    /\ fs = TwoTones
    /\ state_path = [stem |-> "state", ext |-> <<"json">>]
    /\ disk = DiskWith(state_path, Absent)
    /\ save_every \in Checkpoints
    /\ skip_unique_size = FALSE
    /\ ignore_size_expr = NoExpr
    /\ FirstStart

NextModify ==
    \/ MainArgs
    \/ MainLoad
    \/ \E r \in Roots : WalkDir(r)
    \/ \E w \in Workers :
          WorkerHit(w) \/ WorkerDecodeOk(w) \/ Store(w) \/ StoreReset(w)
    \/ \E t \in Workers \cup Roots :
          SaveBegin(t) \/ SaveWrite(t) \/ SaveRename(t)
    \/ MainFinish
    \/ Restart
    \/ \E p \in Files : EnvModify(p)

SpecModify == InitModify /\ [][NextModify]_vars

\* the file p was when its modification time was mtime
FileWhen(p, mtime) == IF mtime = Rewritten.mtime THEN Rewritten ELSE TwoTones[p]

\* the entry a decode of file f at path p gives when it is stored with the
\* size and time of f
EntryOf(p, f) ==
    LET r == process_audio_file(p, f.content, FALSE)
    IN CachedEntry([r.audio_file EXCEPT !.file_size = f.size,
                                        !.modified_secs = f.mtime],
                   f.size, f.mtime)

\* C21: every entry of the cache holds the size and the modification time
\* the file had when its samples were decoded, also when the file is
\* rewritten between the walker's metadata read and the decode: the entry of
\* a path is the fingerprint of the content that had the entry's size and
\* time, so that a lookup hit never returns the fingerprint of other content.
C21_SnapshotInvariant ==
    \A p \in DOMAIN data : data[p] = EntryOf(p, FileWhen(p, data[p].modified_secs))

\* the cache holds an entry for the path with another size or time
Stale(map, path, size, modified_secs) ==
    /\ path \in DOMAIN map
    /\ map[path].file_size # size \/ map[path].modified_secs # modified_secs

\* worker w takes the candidate i of root r in this step
Takes(w, r, i) ==
    /\ pc[w] = "idle"
    /\ Unclaimed(r, i)
    /\ ~Unclaimed(r, i)'
    /\ pc'[w] # "idle" \/ <<r, i>> \in finished'

\* worker w leaves the insert of store in this step
Inserts(w) == pc[w] = "store" /\ pc'[w] # "store"

\* C24: a candidate whose size or time differs from its cache entry is
\* decoded again: the worker that takes it goes on to store the record of
\* the file's content under the candidate's size and time.  The store
\* replaces the whole entry of the path: afterwards a lookup with the new
\* size and time hits with the new record, a lookup with the old size and
\* time misses, and the entries of the other paths are as they were.
C24_StaleEntryReplaced ==
    [][/\ \A w \in Workers : \A r \in Roots : \A i \in 1..Len(files_to_process[r]) :
             LET c == files_to_process[r][i]
             IN /\ Stale(data, c.path, c.size, c.modified_secs)
                /\ ~is_unique_skip(skip_unique_size, files_to_process[r], c.size)
                /\ \E v \in Workers : Takes(v, r, i)
                /\ pc'[w] # pc[w]
                => /\ pc'[w] = "store"
                   /\ task'[w].path = c.path
                   /\ task'[w].size = c.size
                   /\ task'[w].modified_secs = c.modified_secs
                   /\ task'[w].audio_file =
                         [process_audio_file(c.path, fs[c.path].content, FALSE).audio_file
                             EXCEPT !.file_size = c.size,
                                    !.modified_secs = c.modified_secs]
       /\ \A w \in Workers :
             LET t == task[w]
             IN Inserts(w) /\ Stale(data, t.path, t.size, t.modified_secs)
                => /\ data'[t.path] = CachedEntry(t.audio_file, t.size, t.modified_secs)
                   /\ lookup(data', t.path, t.size, t.modified_secs) = Some(t.audio_file)
                   /\ ~lookup(data', t.path, data[t.path].file_size,
                              data[t.path].modified_secs).some
                   /\ DOMAIN data' = DOMAIN data
                   /\ \A q \in DOMAIN data \ {t.path} : data'[q] = data[q]]_vars

\* a worker has replaced the entry the state file of the first run holds for
\* a file rewritten since, and its checkpoint has not been saved yet
C24_Witness ==
    \E w \in Workers :
        /\ pc[w] \in {"reset", "save", "write", "rename"}
        /\ task[w].path \in DOMAIN data
        /\ data[task[w].path] = CachedEntry(task[w].audio_file, task[w].size,
                                             task[w].modified_secs)
        /\ persisted.kind = "store"
        /\ Stale(MapFromJson(persisted.json), task[w].path, task[w].size,
                 task[w].modified_secs)

(***************************************************************************)
(* SpecLocks: the two locks of ResumeCache, step by step.  The             *)
(* specifications above take the map's lock, use the map and release the   *)
(* lock in one step; here taking a lock is a step of its own, so that a    *)
(* thread can be seen waiting for one.  Two workers share MaxTasks         *)
(* candidates; any lookup hits or misses, any decode succeeds or fails,    *)
(* any step of save on the disk succeeds or fails; walk_dir saves once     *)
(* the workers are done and main returns; Ctrl-C comes at any moment.      *)
(* What the map and the files hold plays no part and is left as it is.     *)
(*   call.map_lock  the thread holding the lock of ResumeCache.data        *)
(*   call.left      the candidates no worker has taken yet                 *)
(* pc[t] is the line thread t is about to run:                             *)
(*   "lookup"   lib.rs:222  data.lock() of lookup                          *)
(*   "get"      lib.rs:223-230, the guard dropped at the return            *)
(*   "decode"   lib.rs:558  process_audio_file                             *)
(*   "store"    lib.rs:234  data.lock() of store                           *)
(*   "insert"   lib.rs:235-243, the guard dropped at the end of the block  *)
(*   "count"    lib.rs:246-247                                             *)
(*   "reset"    lib.rs:249                                                 *)
(*   "save"     lib.rs:256  save_lock.lock()                               *)
(*   "snapshot" lib.rs:259  data.lock() of save                            *)
(*   "clone"    lib.rs:260-261, the guard dropped at the end of the block  *)
(*   "create"   lib.rs:263-271                                             *)
(*   "write"    lib.rs:272-273                                             *)
(*   "rename"   lib.rs:274-276, the save lock's guard dropped at return    *)
(***************************************************************************)
MaxTasks == 2

\* the threads that call save: the workers, walk_dir and the handler
Savers == Workers \cup {"r1", "sig"}

lockvars == <<fs, state_path, save_every, skip_unique_size, ignore_size_expr,
              ignore_size, disk, run, data, task, snap, files_to_process,
              finished, audio_files, progress, groups, data_at_interrupt,
              save_failed, loaded_ok, decoded, failed, persisted, first_run>>

InitLocks ==
    /\ fs = TwoTones
    /\ state_path = [stem |-> "state", ext |-> <<"json">>]
    /\ disk = DiskWith(state_path, Absent)
    /\ save_every \in Checkpoints
    /\ skip_unique_size = FALSE
    /\ ignore_size_expr = NoExpr
    /\ ignore_size = NoFilter
    /\ run = 1
    /\ exit_status = "none"
    /\ data = EmptyMap
    /\ pending = 0
    /\ save_lock = "free"
    /\ pc = [t \in Threads |->
                CASE t = "main" -> "scan"
                  [] t = "sig" -> "wait"
                  [] t \in Workers -> "idle"
                  [] t = "r1" -> "par"
                  [] OTHER -> "done"]
    /\ task = [w \in Workers |-> NoTask]
    /\ snap = [t \in Threads |-> EmptyMap]
    /\ files_to_process = [r \in Roots |-> <<>>]
    /\ finished = {}
    /\ audio_files = <<>>
    /\ progress = [r \in Roots |-> 0]
    /\ interrupted = FALSE
    /\ groups = {}
    /\ data_at_interrupt = EmptyMap
    /\ save_failed = FALSE
    /\ loaded_ok = TRUE
    /\ decoded = {}
    /\ failed = {}
    /\ persisted = disk[state_path]
    /\ first_run = NoFirstRun
    /\ call = [op |-> "locks", map_lock |-> "free", left |-> MaxTasks]

\* thread t goes on to the line named by to
Goes(t, to) == pc' = [pc EXCEPT ![t] = to]

\* lib.rs:234-243 a faulty variant: the guard of the map outlives the block
MapLockKeptAfterInsert(t) == t

\* lib.rs:243 the guard of the map is dropped where the if-let block ends
MapLockAfterInsert(t) == "free"

\* lib.rs:258-261 a faulty variant: the guard of the map lives as long as save
MapLockKeptAfterClone(t) == t

\* lib.rs:261 the guard of the map is dropped where the snapshot block ends
MapLockAfterClone(t) == "free"

\* lib.rs:531-541 a worker takes the next candidate and calls lookup
LkTake(w) ==
    /\ Running
    /\ pc[w] = "idle"
    /\ call.left > 0
    /\ call' = [call EXCEPT !.left = @ - 1]
    /\ Goes(w, "lookup")
    /\ UNCHANGED <<lockvars, exit_status, pending, save_lock, interrupted>>

\* lib.rs:222 lookup takes the map's lock
LkLookupLock(w) ==
    /\ Running
    /\ pc[w] = "lookup"
    /\ call.map_lock = "free"
    /\ call' = [call EXCEPT !.map_lock = w]
    /\ Goes(w, "get")
    /\ UNCHANGED <<lockvars, exit_status, pending, save_lock, interrupted>>

\* lib.rs:223-231, 542-557 lookup returns and drops the guard: on a hit the
\* closure returns, on a miss it decodes
LkLookupReturn(w) ==
    /\ Running
    /\ pc[w] = "get"
    /\ call' = [call EXCEPT !.map_lock = "free"]
    /\ \E hit \in BOOLEAN : Goes(w, IF hit THEN "idle" ELSE "decode")
    /\ UNCHANGED <<lockvars, exit_status, pending, save_lock, interrupted>>

\* lib.rs:558-588 the decode: its record is stored, its error is logged
LkDecode(w) ==
    /\ Running
    /\ pc[w] = "decode"
    /\ \E ok \in BOOLEAN : Goes(w, IF ok THEN "store" ELSE "idle")
    /\ UNCHANGED <<lockvars, exit_status, pending, save_lock, interrupted, call>>

\* lib.rs:234 store takes the map's lock
LkStoreLock(w) ==
    /\ Running
    /\ pc[w] = "store"
    /\ call.map_lock = "free"
    /\ call' = [call EXCEPT !.map_lock = w]
    /\ Goes(w, "insert")
    /\ UNCHANGED <<lockvars, exit_status, pending, save_lock, interrupted>>

\* lib.rs:235-243 the insert
LkInsert(w) ==
    /\ Running
    /\ pc[w] = "insert"
    /\ call' = [call EXCEPT !.map_lock = MapLockAfterInsert(w)]
    /\ Goes(w, "count")
    /\ UNCHANGED <<lockvars, exit_status, pending, save_lock, interrupted>>

\* lib.rs:246-247 fetch_add and the comparison with save_every
LkCount(w) ==
    /\ Running
    /\ pc[w] = "count"
    /\ pending' = pending + 1
    /\ Goes(w, IF pending + 1 >= save_every THEN "reset" ELSE "idle")
    /\ UNCHANGED <<lockvars, exit_status, save_lock, interrupted, call>>

\* lib.rs:249 pending.store(0)
LkReset(w) ==
    /\ Running
    /\ pc[w] = "reset"
    /\ pending' = 0
    /\ Goes(w, "save")
    /\ UNCHANGED <<lockvars, exit_status, save_lock, interrupted, call>>

\* lib.rs:597-599 the workers are done: walk_dir calls save
LkWalkEnds ==
    /\ Running
    /\ pc["r1"] = "par"
    /\ call.left = 0
    /\ \A w \in Workers : pc[w] = "idle"
    /\ Goes("r1", "save")
    /\ UNCHANGED <<lockvars, exit_status, pending, save_lock, interrupted, call>>

\* lib.rs:256 save takes the save lock
LkSaveLock(t) ==
    /\ Running
    /\ pc[t] = "save"
    /\ save_lock = "free"
    /\ save_lock' = t
    /\ Goes(t, "snapshot")
    /\ UNCHANGED <<lockvars, exit_status, pending, interrupted, call>>

\* lib.rs:259 save takes the map's lock
LkSnapshotLock(t) ==
    /\ Running
    /\ pc[t] = "snapshot"
    /\ call.map_lock = "free"
    /\ call' = [call EXCEPT !.map_lock = t]
    /\ Goes(t, "clone")
    /\ UNCHANGED <<lockvars, exit_status, pending, save_lock, interrupted>>

\* lib.rs:260-261 the map is cloned
LkClone(t) ==
    /\ Running
    /\ pc[t] = "clone"
    /\ call' = [call EXCEPT !.map_lock = MapLockAfterClone(t)]
    /\ Goes(t, "create")
    /\ UNCHANGED <<lockvars, exit_status, pending, save_lock, interrupted>>

\* where save returns to: a worker's closure returns, walk_dir returns, the
\* handler goes on to exit
AfterSave(t) ==
    CASE t \in Workers -> "idle"
      [] t = "sig" -> "exit"
      [] OTHER -> "done"

\* lib.rs:263-271 create_dir_all and File::create; an error returns from
\* save, which drops the guard of the save lock
LkCreate(t) ==
    /\ Running
    /\ pc[t] = "create"
    /\ \E ok \in BOOLEAN :
          IF ok THEN Goes(t, "write") /\ UNCHANGED save_lock
          ELSE Goes(t, AfterSave(t)) /\ save_lock' = "free"
    /\ UNCHANGED <<lockvars, exit_status, pending, interrupted, call>>

\* lib.rs:272-273 to_writer_pretty and sync_all
LkWrite(t) ==
    /\ Running
    /\ pc[t] = "write"
    /\ \E ok \in BOOLEAN :
          IF ok THEN Goes(t, "rename") /\ UNCHANGED save_lock
          ELSE Goes(t, AfterSave(t)) /\ save_lock' = "free"
    /\ UNCHANGED <<lockvars, exit_status, pending, interrupted, call>>

\* lib.rs:274-276 the rename, done or failed, and the return
LkRename(t) ==
    /\ Running
    /\ pc[t] = "rename"
    /\ Goes(t, AfterSave(t))
    /\ save_lock' = "free"
    /\ UNCHANGED <<lockvars, exit_status, pending, interrupted, call>>

\* main.rs:130-133 Ctrl-C is delivered: the handler calls save
LkCtrlC ==
    /\ Running
    /\ pc["sig"] = "wait"
    /\ interrupted' = TRUE
    /\ Goes("sig", "save")
    /\ UNCHANGED <<lockvars, exit_status, pending, save_lock, call>>

\* main.rs:134-138 std::process::exit(130)
LkHandlerExit ==
    /\ Running
    /\ pc["sig"] = "exit"
    /\ exit_status' = "130"
    /\ UNCHANGED <<lockvars, pc, pending, save_lock, interrupted, call>>

\* main.rs:147-168 walk_dir has returned and main returns
LkMainReturns ==
    /\ Running
    /\ pc["r1"] = "done"
    /\ exit_status' = "0"
    /\ UNCHANGED <<lockvars, pc, pending, save_lock, interrupted, call>>

\* the steps of thread t, for the scheduler's fairness
LkStep(t) ==
    \/ /\ t \in Workers
       /\ \/ LkTake(t) \/ LkLookupLock(t) \/ LkLookupReturn(t) \/ LkDecode(t)
          \/ LkStoreLock(t) \/ LkInsert(t) \/ LkCount(t) \/ LkReset(t)
    \/ /\ t \in Savers
       /\ \/ LkSaveLock(t) \/ LkSnapshotLock(t) \/ LkClone(t)
          \/ LkCreate(t) \/ LkWrite(t) \/ LkRename(t)
    \/ t = "r1" /\ LkWalkEnds
    \/ t = "sig" /\ LkHandlerExit
    \/ t = "main" /\ LkMainReturns

NextLocks ==
    \/ \E w \in Workers :
          \/ LkTake(w) \/ LkLookupLock(w) \/ LkLookupReturn(w) \/ LkDecode(w)
          \/ LkStoreLock(w) \/ LkInsert(w) \/ LkCount(w) \/ LkReset(w)
    \/ \E t \in Savers :
          \/ LkSaveLock(t) \/ LkSnapshotLock(t) \/ LkClone(t)
          \/ LkCreate(t) \/ LkWrite(t) \/ LkRename(t)
    \/ LkWalkEnds
    \/ LkCtrlC
    \/ LkHandlerExit
    \/ LkMainReturns

SpecLocks == InitLocks /\ [][NextLocks]_vars

\* the scheduler runs every thread that can take a step; the delivery of
\* Ctrl-C is the environment's and is not forced
SpecLocksFair == SpecLocks /\ \A t \in Threads : WF_vars(LkStep(t))

\* thread t waits for the lock named by its line
WaitsForMapLock(t) == pc[t] \in {"lookup", "store", "snapshot"}
WaitsForSaveLock(t) == pc[t] = "save"

\* C22: the handler's save cannot deadlock with the workers.  A thread
\* holding the map's lock is inside lookup's get, store's insert or save's
\* clone and waits for no lock; a thread holding the save lock waits for no
\* lock but the map's: the save lock is always taken before the map's lock
\* and no cycle can form.  No thread holds a lock while it decodes, so the
\* handler never waits on a decode.  Under fair scheduling, once Ctrl-C is
\* delivered the handler's save returns, unless main returns first, and the
\* process exits.
C22_NoDeadlockOnCancel ==
    /\ [](\A t \in Threads :
            /\ call.map_lock = t => pc[t] \in {"get", "insert", "clone"}
            /\ save_lock = t =>
                  pc[t] \in {"snapshot", "clone", "create", "write", "rename"}
            /\ pc[t] = "decode" => call.map_lock # t /\ save_lock # t)
    /\ interrupted ~> (pc["sig"] = "exit" \/ exit_status # "none")
    /\ interrupted ~> exit_status # "none"

\* the handler holds the save lock and waits for the map's lock while a
\* worker, inside store's insert, holds it and will call save
C22_Witness ==
    /\ interrupted
    /\ pc["sig"] = "snapshot"
    /\ \E w \in Workers : call.map_lock = w /\ pc[w] = "insert"
    /\ pending + 1 >= save_every

\* thread t is in the part of save that writes to the disk
WritesDisk(t) == pc[t] \in {"create", "write", "rename"}

\* C23: lookups are not blocked by disk writes.  A thread in the write,
\* flush or rename phase of save does not hold the map's lock; save holds the
\* map's lock only while it clones the map; so whoever holds the map's lock
\* while a save writes is inside a get, an insert or a clone, none of which
\* waits for the disk or for a lock, and while the process lives a lookup
\* or an insert waiting for the map's lock can go on as soon as that one
\* step is done.
C23_LookupsNotBlockedByWrites ==
    \A t \in Threads :
        /\ WritesDisk(t) => call.map_lock # t /\ save_lock = t
        /\ save_lock = t /\ call.map_lock = t => pc[t] = "clone"
        /\ WritesDisk(t) /\ call.map_lock # "free" =>
              /\ pc[call.map_lock] \in {"get", "insert"}
              /\ Running =>
                    ENABLED (LkLookupReturn(call.map_lock) \/ LkInsert(call.map_lock))
        /\ Running /\ WritesDisk(t) /\ call.map_lock = "free" =>
              \A w \in Workers :
                 /\ pc[w] = "lookup" => ENABLED LkLookupLock(w)
                 /\ pc[w] = "store" => ENABLED LkStoreLock(w)

\* a save is writing its temporary file while a worker is inside lookup with
\* the map's lock and the other waits to insert
C23_Witness ==
    \E t \in Savers, w \in Workers, v \in Workers :
        /\ pc[t] = "write"
        /\ call.map_lock = w
        /\ pc[w] = "get"
        /\ pc[v] = "store"

\* C25: a save that fails is contained.  When save returns an error, the map
\* is as it was, the state file is the file the last load or the last
\* successful save left there, and the process goes on; and a save that
\* succeeds later puts a complete store of the whole map of its snapshot at
\* the state path, so that only the records stored since the last successful
\* save are at risk.
C25_SaveFailureContained ==
    [][/\ SaveFailure =>
             /\ data' = data
             /\ disk'[state_path] = persisted
             /\ exit_status' = "none"
       /\ \A t \in Workers \cup Roots \cup {"sig"} :
             /\ SaveBegin(t) => snap'[t] = data
             /\ SaveRename(t) => FileHolds(disk'[state_path], snap[t])]_vars

\* the paths that have an entry in a file
PathsIn(file) == IF file.kind = "store" THEN DOMAIN file.json ELSE {}

\* the threads between taking the snapshot and the end of the rename
InSave == {t \in Threads : pc[t] \in {"write", "rename"}}

\* C28: the persisted state never regresses.  At most one thread is between
\* taking its snapshot and its rename, and it holds the save lock; the file
\* a rename puts at the state path is the snapshot of its save, which is the
\* map as it was at the one instant the snapshot was taken; and in a run
\* whose load read the state file or found none, no step of a save,
\* whichever thread runs it, takes out of the state file a path that has an
\* entry in it.
C28_PersistedNeverRegresses ==
    [][/\ Cardinality(InSave) <= 1
       /\ \A t \in InSave : save_lock = t
       /\ \A t \in Workers \cup Roots \cup {"sig"} :
             /\ SaveBegin(t) => snap'[t] = data
             /\ SaveRename(t) => disk'[state_path] = StoreFile(MapToJson(snap[t]))
       /\ pc["main"] = "scan" /\ loaded_ok /\ exit_status' = exit_status =>
             PathsIn(disk[state_path]) \subseteq PathsIn(disk'[state_path])]_vars

(***************************************************************************)
(* SpecSchema: ResumeCache::load on state files of other schema versions.  *)
(* The file holds the entries of two paths; each entry is as this version  *)
(* writes it, or lacks one of its numeric fields, or carries a key that is *)
(* no field, in the entry or in its record.  The file can be opened.       *)
(***************************************************************************)
\* the numeric fields of AudioFile (lib.rs:127-137, 139-140) and of
\* CachedEntry (lib.rs:164-165)
NumericAudioFileFields ==
    {"total_samples", "sample_rate", "bit_depth", "channels", "peak_level",
     "rms_db_level", "file_size", "modified_secs"}
NumericEntryFields == {"file_size", "modified_secs"}

\* the entry of Tone under a path as this version writes it
WrittenEntry(path) ==
    EntryToJson(CachedEntry([ToneRecord(path) EXCEPT !.file_size = 1,
                                                     !.modified_secs = 1], 1, 1))

\* a JSON object without the key f, and with a key that is no field
Without(obj, f) == [x \in DOMAIN obj \ {f} |-> obj[x]]
WithExtra(obj) == [x \in DOMAIN obj \cup {"comment"} |->
                      IF x = "comment" THEN "added by a later version" ELSE obj[x]]

\* the forms an entry can have in the file
EntryForms(je) ==
    {je, WithExtra(je), [je EXCEPT !.audio_file = WithExtra(@)]}
    \cup {Without(je, f) : f \in NumericEntryFields}
    \cup {[je EXCEPT !.audio_file = Without(@, f)] : f \in NumericAudioFileFields}

SchemaFiles ==
    {StoreFile([p \in Files |-> IF p = "a" THEN ea ELSE eb]) :
        ea \in EntryForms(WrittenEntry("a")), eb \in EntryForms(WrittenEntry("b"))}

InitSchema ==
    /\ PipelineIdle
    /\ call \in [op : {"file"}, file : SchemaFiles]

\* lib.rs:178-200 load on the file: what it returns and what it leaves on disk
LoadFile ==
    /\ call.op = "file"
    /\ LET d == DiskWith(state_path, call.file)
           fails == LoadFails(call.file, TRUE)
       IN call' = [op |-> "loaded", file |-> call.file, fails |-> fails,
                   map |-> LoadedMap(call.file, TRUE),
                   disk |-> IF fails THEN backup_broken(d, state_path, TRUE)
                            ELSE d]
    /\ UNCHANGED pipevars

NextSchema == LoadFile

SpecSchema == InitSchema /\ [][NextSchema]_vars

\* the entry of path p in the file lacks the field f of its record
LacksRecordField(file, p, f) == f \notin DOMAIN file.json[p].audio_file

\* the entry of path p in the file lacks a field that has no default
LacksRequired(file, p) ==
    \/ \E f \in NumericEntryFields : f \notin DOMAIN file.json[p]
    \/ \E f \in NumericAudioFileFields \ {"rms_db_level"} :
          LacksRecordField(file, p, f)

\* the entry of path p as this version writes it
Intact(file, p) == file.json[p] = WrittenEntry(p)

Extensions == {"flac", "wav", "mp3", ""}

\* a file with an extension; a file whose metadata cannot be read
WithExt(e) == [Tone EXCEPT !.ext = e]
Unreadable(file) ==
    [x \in DOMAIN file \cup {"unreadable_metadata"} |->
        IF x = "unreadable_metadata" THEN TRUE ELSE file[x]]

WalkLayouts ==
    LET stats == [size : {1, 800 * 1024 * 1024, 800 * 1024 * 1024 + 1},
                  mtime : {1},
                  content : {WithExt(e) : e \in Extensions}]
    IN [Files -> stats \cup {Unreadable(st) : st \in stats}]

\* no filter, <2 and >2
WalkFilters == {NoExpr, SomeExpr(<<"<", "2">>), SomeExpr(<<">", "2">>)}

InitWalk ==
    /\ fs \in WalkLayouts
    /\ state_path = [stem |-> "state", ext |-> <<"json">>]
    /\ disk = DiskWith(state_path, Absent)
    /\ save_every = 2
    /\ skip_unique_size = FALSE
    /\ ignore_size_expr \in WalkFilters
    /\ FirstStart

NextWalk ==
    \/ MainArgs
    \/ MainLoad
    \/ \E r \in Roots : WalkDir(r)

SpecWalk == InitWalk /\ [][NextWalk]_vars

\* the candidate of root r for the path
CandidateOf(r, path) ==
    LET i == CHOOSE i \in 1..Len(files_to_process[r]) :
                 files_to_process[r][i].path = path
    IN files_to_process[r][i]

C29_GroupsOfDistinctPaths ==
    exit_status = "0" =>
        \A g \in groups :
            /\ Cardinality({g[i].file_path : i \in 1..Len(g)}) >= 2
            /\ \A i, j \in 1..Len(g) : g[i].file_path = g[j].file_path => i = j

=============================================================================
